---- MODULE Spec2Model ----
(***************************************************************************)
(* Model of the mheap crate: the plain heap (VecHeap), the indexable heap  *)
(* (IndexableHeap over IndexableVec + SkipList), the Hole-based sifts and  *)
(* the mutation guards (PeekMut, GetMut).                                  *)
(*                                                                         *)
(* Positions are 0-based as in the source; a TLA+ sequence holds position  *)
(* p at index p + 1.  An element is a record [key, tag]: the ordering      *)
(* policy compares keys only (MaxHeap::by_key / MinHeap::by_key); tag is   *)
(* 1 on the one element whose handle is being followed (tracked), else 0.  *)
(***************************************************************************)
EXTENDS Integers, Sequences, FiniteSets, TLC

VARIABLES
    facade,      \* "vec" (VecHeap) or "idx" (IndexableHeap): which heap was constructed
    ord,         \* "max" (MaxHeap) or "min" (MinHeap): the heap's ordering policy
    data,        \* VecHeap.data : Vec<T>, or IndexableVec.data : Vec<(T, Idx<T>)>
    other,       \* the data of a second VecHeap, the argument of append
    position,    \* IndexableVec.position.data : Vec<SkipEntry> (the side table)
    first_skip,  \* IndexableVec.position.first_skip : NextSkip (0 = NONE, i + 1 = some(i))
    guard,       \* the open mutation guard: PeekMut / GetMut with its pos and sift flag
    ret,         \* what the last operation returned to the caller
    sifts,       \* the sift calls the last operation made, in order
    tracked,     \* the handle push returned for the element of tag 1, NONE if none is stored
    scn          \* what a scripted caller has noted of its run (<<>> for any caller)

vars == <<facade, ord, data, other, position, first_skip, guard, ret, sifts, tracked, scn>>

\* ------------------------------------------------------------------ bounds
\* the most elements a heap holds, and the keys they take
MaxLen == 3
MaxKey == 3
\* the most elements pushed by the scripted callers
MaxSort == 4
\* the most elements of each of the two heaps given to append, and the lengths
\* of the two heaps of a long append: BigStart and BigTail or BigTail - BigGap
MaxStart == 33
BigStart == 1800
BigTail == 420
BigGap == 70
MaxPanicKey == 2
MaxPanicLen == 5
MaxSiftLen == 5
MaxSiftKey == 3
\* usize is modelled by words of UsizeBits bits; the tree functions are applied
\* to lengths up to TreeLen and to the TreeTop + 1 greatest lengths of a word
UsizeBits == 13
TreeLen == 6
TreeTop == 3

Keys == 1..MaxKey
Handles == 0..MaxSort

\* Option::None of a Position / RawIdx
NONE == -1

\* ------------------------------------------------------------ ordering.rs
\* ByKey::cmp : compare two elements by their key
Cmp(a, b) == IF a.key < b.key THEN "lt" ELSE IF a.key > b.key THEN "gt" ELSE "eq"

\* a key on which the comparison panics: ByCmp / ByKey call the caller's
\* function, which may panic (partial_cmp(..).unwrap() on a NaN)
Unordered == 0

\* the comparison of a and b panics
cmp_panics(a, b) == a.key = Unordered \/ b.key = Unordered

\* MaxHeap / MinHeap :: should_sift_up
should_sift_up(o, elt, parent_elt) ==
    IF o = "max" THEN Cmp(elt, parent_elt) = "gt" ELSE Cmp(elt, parent_elt) = "lt"

\* MaxHeap / MinHeap :: should_sift_down
should_sift_down(o, elt, child_elt) ==
    IF o = "max" THEN Cmp(elt, child_elt) = "lt" ELSE Cmp(elt, child_elt) = "gt"

\* a select_upper that takes b unless a is ranked above it
select_upper_on_tie(o, a, b) == ~should_sift_up(o, a, b)

\* Ordering::select_upper : TRUE if b should be the root
select_upper(o, a, b) == should_sift_up(o, b, a)

\* ---------------------------------------------------------------- tree.rs
root(length) == IF length # 0 THEN 0 ELSE NONE

\* a parent that answers the root for the root
parent_or_self(pos) == IF pos = 0 THEN 0 ELSE (pos - 1) \div 2

parent(pos) == IF pos = 0 THEN NONE ELSE (pos - 1) \div 2

\* usize::MAX + 1, and the value an overflowing usize expression wraps to in a
\* build without overflow checks (a build with them panics)
UsizeRange == 2 ^ UsizeBits
wrapping(x) == x % UsizeRange

child(length, pos, index) ==
    LET c == wrapping(2 * pos + 1 + index) IN IF c < length THEN c ELSE NONE

\* the expression 2 * pos + 1 + index of child overflows
child_overflows(pos, index) == 2 * pos + 1 + index >= UsizeRange

select_sibling(pos, cond) == pos + (IF cond THEN 1 ELSE 0)

is_whole_node(length, pos) == child(length, pos, 1) # NONE

nchildren(length, pos) ==
    LET first == wrapping(2 * pos + 1)
        s == IF length >= first THEN length - first ELSE 0
    IN IF s < 2 THEN s ELSE 2

\* the expression 2 * pos + 1 of nchildren overflows
nchildren_overflows(pos) == 2 * pos + 1 >= UsizeRange

\* the positions the children iterator yields, in order
children(length, pos) ==
    [i \in 1..nchildren(length, pos) |-> child(length, pos, i - 1)]

\* a rebuild_range that leaves out the parent of a lone last child
rebuild_range_whole(length) == (length - 1) \div 2

\* the range 0..len/2, as its exclusive upper end
rebuild_range(length) == length \div 2

RECURSIVE log2_fast(_)
log2_fast(x) == IF x <= 1 THEN 0 ELSE 1 + log2_fast(x \div 2)

RebuildCutoff == 2048
RebuildFactor == 11

\* a better_to_rebuild that weighs the costs whatever the length of the tail
better_to_rebuild_by_cost(length, start) ==
    IF length <= RebuildCutoff THEN 2 * length < (length - start) * log2_fast(start)
    ELSE 2 * length < (length - start) * RebuildFactor

\* a better_to_rebuild that uses the logarithm rule at every length
better_to_rebuild_by_log(length, start) ==
    IF start < length - start THEN TRUE
    ELSE 2 * length < (length - start) * log2_fast(start)

better_to_rebuild(length, start) ==
    LET tail_len == length - start IN
    IF start < tail_len THEN TRUE
    ELSE IF length <= RebuildCutoff THEN 2 * length < tail_len * log2_fast(start)
    ELSE 2 * length < tail_len * RebuildFactor

\* ------------------------------------------------- indexable_vec.rs: SkipList
\* SkipEntry(usize): the SKIP_BIT and the remaining bits
from_pos(pos) == [skip |-> FALSE, val |-> pos]
from_skip(next_idx) == [skip |-> TRUE, val |-> next_idx]
is_data(e) == ~e.skip

\* NextSkip
NextSkipNONE == 0
NextSkip_some(i) == i + 1
NextSkip_get(n) == IF n = 0 THEN NONE ELSE n - 1

\* A storage value: the backing sequence with (for the indexable store) its side
\* table; panic is "" or the message of the panic that stopped the operation.
\* calls is the log of the sift calls made on it, writes the number of slots of
\* the backing sequence written by Storage::move_element and Storage::store.
Storage(k, d, p, f) ==
    [kind |-> k, data |-> d, position |-> p, first_skip |-> f, panic |-> "",
     calls |-> <<>>, writes |-> 0]

Call(s, name, pos) == [s EXCEPT !.calls = Append(s.calls, <<name, pos>>)]

Panic(s, msg) == IF s.panic = "" THEN [s EXCEPT !.panic = msg] ELSE s

len(s) == Len(s.data)

\* SkipList::is_valid
is_valid(s, index) ==
    index >= 0 /\ index < Len(s.position) /\ is_data(s.position[index + 1])

\* a SkipList::add that never takes an index from the free chain
SkipList_add_unrecycled(s, pos) ==
    <<[s EXCEPT !.position = Append(s.position, from_pos(pos))], Len(s.position)>>

\* a SkipList::add that leaves first_skip at the entry it hands out
SkipList_add_head_kept(s, pos) ==
    LET head == NextSkip_get(s.first_skip) IN
    IF head # NONE THEN <<[s EXCEPT !.position[head + 1] = from_pos(pos)], head>>
    ELSE <<[s EXCEPT !.position = Append(s.position, from_pos(pos))], Len(s.position)>>

\* SkipList::add : returns <<storage, index>>
SkipList_add(s, pos) ==
    LET head == NextSkip_get(s.first_skip) IN
    IF head # NONE THEN
        IF head >= Len(s.position) THEN <<Panic(s, "index is out of bounds"), head>>
        ELSE LET entry == s.position[head + 1] IN
             IF is_data(entry) THEN <<Panic(s, "expected skip"), head>>
             ELSE <<[s EXCEPT !.position[head + 1] = from_pos(pos),
                              !.first_skip = entry.val], head>>
    ELSE <<[s EXCEPT !.position = Append(s.position, from_pos(pos))], Len(s.position)>>

\* a SkipList::get that reads the entry without expect_data
SkipList_get_unchecked(s, index) ==
    IF index < 0 \/ index >= Len(s.position) THEN NONE ELSE s.position[index + 1].val

\* SkipList::get : the position, or NONE with the panic recorded
SkipList_get(s, index) ==
    IF index < 0 \/ index >= Len(s.position) THEN NONE
    ELSE IF is_data(s.position[index + 1]) THEN s.position[index + 1].val ELSE NONE

\* SkipList::set
SkipList_set(s, index, pos) ==
    IF index < 0 \/ index >= Len(s.position) THEN Panic(s, "index out of bounds")
    ELSE IF ~is_data(s.position[index + 1]) THEN Panic(s, "expected data")
    ELSE [s EXCEPT !.position[index + 1] = from_pos(pos)]

\* a SkipList::remove that leaves first_skip as it was
SkipList_remove_unlinked(s, index) ==
    IF index = Len(s.position) - 1 THEN
        [s EXCEPT !.position = SubSeq(s.position, 1, Len(s.position) - 1)]
    ELSE [s EXCEPT !.position[index + 1] = from_skip(s.first_skip)]

\* SkipList::remove
SkipList_remove(s, index) ==
    IF index = Len(s.position) - 1 THEN
        IF ~is_data(s.position[index + 1]) THEN Panic(s, "expected data")
        ELSE [s EXCEPT !.position = SubSeq(s.position, 1, Len(s.position) - 1)]
    ELSE IF index < 0 \/ index >= Len(s.position) THEN Panic(s, "index out of bounds")
    ELSE IF ~is_data(s.position[index + 1]) THEN Panic(s, "expected data")
    ELSE [s EXCEPT !.position[index + 1] = from_skip(s.first_skip),
                   !.first_skip = NextSkip_some(index)]

\* ------------------------------------------- storage.rs / indexable_vec.rs
\* Storage::get : the element (T) at pos
get(s, pos) == IF s.kind = "idx" THEN s.data[pos + 1].item ELSE s.data[pos + 1]

\* Storage::slot_key : the element of a slot
slot_key(s, slot) == IF s.kind = "idx" THEN slot.item ELSE slot

\* writing through Storage::get_mut
set_item(s, pos, item) ==
    IF s.kind = "idx" THEN [s EXCEPT !.data[pos + 1].item = item]
    ELSE [s EXCEPT !.data[pos + 1] = item]

\* IndexableVec::pos_to_index (with assert_index)
pos_to_index(s, pos) == s.data[pos + 1].idx

\* IndexableVec::index_to_pos (with assert_pos): the position, or NONE on a panic
index_to_pos(s, index) ==
    LET pos == SkipList_get(s, index) IN
    IF pos = NONE \/ pos >= len(s) THEN NONE ELSE pos

\* IndexableVec::record_position
record_position(s, pos) ==
    LET index == pos_to_index(s, pos) IN
    IF ~is_valid(s, index) THEN Panic(s, "position contains invalid index")
    ELSE SkipList_set(s, index, pos)

\* Storage::load : the slot read out of pos (the bytes stay behind in the hole)
load(s, pos) == s.data[pos + 1]

\* Storage::store
store(s, pos, slot) ==
    LET w == [s EXCEPT !.data[pos + 1] = slot, !.writes = @ + 1] IN
    IF s.kind = "idx" THEN record_position(w, pos) ELSE w

\* a move_element that does not record the new position
move_element_unrecorded(s, src, dst) ==
    [s EXCEPT !.data[dst + 1] = s.data[src + 1], !.writes = @ + 1]

\* Storage::move_element
move_element(s, src, dst) ==
    LET w == [s EXCEPT !.data[dst + 1] = s.data[src + 1], !.writes = @ + 1] IN
    IF s.kind = "idx" THEN record_position(w, dst) ELSE w

\* ---------------------------------------------------------------- hole.rs
\* Hole::new : the hole is [s, elt, pos]
Hole_new(s, pos) == [s |-> s, elt |-> load(s, pos), pos |-> pos]

\* Hole::drop : the retained slot is stored at the hole's position
Hole_drop(h) == store(h.s, h.pos, h.elt)

\* Hole::element
element(h) == slot_key(h.s, h.elt)

\* The contract of Storage: while a hole is open no key is read from it, and
\* every position used is within the storage.  A call that breaks it is noted
\* in the calls of the storage.
Breaches == {"read of the hole", "read out of bounds", "move onto the hole",
             "move out of bounds"}

\* Storage::get_key(index) called by the hole h
get_key(h, index) ==
    IF index < 0 \/ index >= len(h.s)
    THEN [h EXCEPT !.s = Call(h.s, "read out of bounds", index)]
    ELSE IF index = h.pos THEN [h EXCEPT !.s = Call(h.s, "read of the hole", index)]
    ELSE h

\* a move_to that swaps the element with the one at index
move_to_by_swap(h, index) ==
    [h EXCEPT !.s = store(move_element(h.s, index, h.pos), index, h.elt), !.pos = index]

\* Hole::move_to (debug_assert!(index != self.pos), then Storage::move_element)
move_to(h, index) ==
    IF index = h.pos
    THEN [h EXCEPT !.s = Panic(Call(h.s, "move onto the hole", index),
                               "assertion failed: index != self.pos")]
    ELSE IF index < 0 \/ index >= len(h.s)
    THEN [h EXCEPT !.s = Panic(Call(h.s, "move out of bounds", index),
                               "index out of bounds")]
    ELSE [h EXCEPT !.s = move_element(h.s, index, h.pos), !.pos = index]

\* Hole::move_up : the key it reads
move_up_read(h) == IF parent(h.pos) = NONE THEN h ELSE get_key(h, parent(h.pos))

\* Hole::upper_child_whole : the keys it reads
upper_child_whole_read(h) ==
    IF ~is_whole_node(len(h.s), h.pos) THEN h
    ELSE get_key(get_key(h, child(len(h.s), h.pos, 0)), child(len(h.s), h.pos, 1))

\* Hole::upper_child_partial : the keys its loop reads
upper_child_partial_read(h) ==
    IF nchildren(len(h.s), h.pos) < 2 THEN h
    ELSE get_key(get_key(h, child(len(h.s), h.pos, 0)), child(len(h.s), h.pos, 1))

\* Hole::move_down : the test of the move
can_move_down(o, h, index) == should_sift_down(o, element(h), get(h.s, index))

\* Hole::move_up : the test of the move
can_move_up(o, h) ==
    /\ parent(h.pos) # NONE
    /\ should_sift_up(o, element(h), get(h.s, parent(h.pos)))

\* the unwinding of a panic raised by the policy while the hole h is open
unwound(h) == [h EXCEPT !.s = Call(Panic(h.s, "the comparison panicked"), "panic", h.pos)]

\* Hole::move_down : its comparison panics
move_down_panics(h, index) == cmp_panics(element(h), get(h.s, index))

\* Hole::move_up : its comparison panics
move_up_panics(h) ==
    parent(h.pos) # NONE /\ cmp_panics(element(h), get(h.s, parent(h.pos)))

\* Hole::upper_child_whole : its comparison panics
upper_child_whole_panics(h) ==
    /\ is_whole_node(len(h.s), h.pos)
    /\ cmp_panics(get(h.s, child(len(h.s), h.pos, 0)), get(h.s, child(len(h.s), h.pos, 1)))

\* Hole::upper_child_partial : a comparison of its loop panics
upper_child_partial_panics(h) ==
    /\ nchildren(len(h.s), h.pos) = 2
    /\ cmp_panics(get(h.s, child(len(h.s), h.pos, 0)), get(h.s, child(len(h.s), h.pos, 1)))

\* an upper_child_whole that takes the first child without asking the policy
upper_child_first(o, h) ==
    IF ~is_whole_node(len(h.s), h.pos) THEN NONE ELSE child(len(h.s), h.pos, 0)

\* Hole::upper_child_whole
upper_child_whole(o, h) ==
    IF ~is_whole_node(len(h.s), h.pos) THEN NONE
    ELSE LET first == child(len(h.s), h.pos, 0)
             second == child(len(h.s), h.pos, 1)
             cond == select_upper(o, get(h.s, first), get(h.s, second))
         IN select_sibling(first, cond)

\* Hole::upper_child_partial : the loop over the children iterator
RECURSIVE upper_child_fold(_, _, _, _, _)
upper_child_fold(o, h, cs, i, max) ==
    IF i > Len(cs) THEN max
    ELSE upper_child_fold(o, h, cs, i + 1,
             IF select_upper(o, get(h.s, max), get(h.s, cs[i])) THEN cs[i] ELSE max)

upper_child_partial(o, h) ==
    LET cs == children(len(h.s), h.pos) IN
    IF Len(cs) = 0 THEN NONE ELSE upper_child_fold(o, h, cs, 2, cs[1])

\* ---------------------------------------------------------------- sift.rs
\* Every sift returns <<storage, position>>.  A sift called after a panic does
\* not run (the operation is unwinding); a panic of the policy ends the sift
\* where the hole stands, and the hole is dropped.
\* a Hole::drop that does not write the retained element back
into_pos_unfilled(h) == <<h.s, h.pos>>

\* Hole::into_pos (and the drop of the hole while unwinding)
into_pos(h) == <<Hole_drop(h), h.pos>>

\* a sift_up that makes one move at most
sift_up_loop_once(o, h) ==
    IF h.s.panic # "" THEN h
    ELSE IF move_up_panics(h) THEN unwound(h)
    ELSE IF can_move_up(o, h) THEN move_to(h, parent(h.pos))
    ELSE h

RECURSIVE sift_up_loop(_, _)
sift_up_loop(o, h) ==
    IF h.s.panic # "" THEN h
    ELSE IF move_up_panics(h) THEN unwound(move_up_read(h))
    ELSE IF can_move_up(o, h) THEN sift_up_loop(o, move_to(move_up_read(h), parent(h.pos)))
    ELSE move_up_read(h)

sift_up(s, pos, o) ==
    IF s.panic # "" THEN <<s, pos>>
    ELSE into_pos(sift_up_loop(o, Hole_new(Call(s, "sift_up", pos), pos)))

\* one pass of the while-let loop of sift_down on the hole h with upper child c:
\* <<hole, stopped by a refused move or a panic>>
RECURSIVE sift_down_step(_, _, _)
sift_down_loop(o, h) ==
    IF h.s.panic # "" THEN <<h, TRUE>>
    ELSE IF upper_child_whole_panics(h) THEN <<unwound(upper_child_whole_read(h)), TRUE>>
    ELSE sift_down_step(o, upper_child_whole_read(h), upper_child_whole(o, h))
sift_down_step(o, h, c) ==
    IF c = NONE THEN <<h, FALSE>>
    ELSE IF move_down_panics(h, c) THEN <<unwound(get_key(h, c)), TRUE>>
    ELSE IF ~can_move_down(o, h, c) THEN <<get_key(h, c), TRUE>>
    ELSE sift_down_loop(o, move_to(get_key(h, c), c))

\* a sift_down that ends when the hole has no two children left
sift_down_last_skipped(o, h, c) == into_pos(h)

\* the part of sift_down after the loop: the one move to a lone child
sift_down_last(o, h, c) ==
    into_pos(IF c = NONE THEN h
             ELSE IF move_down_panics(h, c) THEN unwound(get_key(h, c))
             ELSE IF can_move_down(o, h, c) THEN move_to(get_key(h, c), c)
             ELSE get_key(h, c))

sift_down_end(o, r) ==
    IF r[2] THEN into_pos(r[1])
    ELSE IF upper_child_partial_panics(r[1])
    THEN into_pos(unwound(upper_child_partial_read(r[1])))
    ELSE sift_down_last(o, upper_child_partial_read(r[1]), upper_child_partial(o, r[1]))

sift_down(s, pos, o) ==
    IF s.panic # "" THEN <<s, pos>>
    ELSE sift_down_end(o, sift_down_loop(o, Hole_new(Call(s, "sift_down", pos), pos)))

RECURSIVE sift_down_to_bottom_step(_, _, _)
sift_down_to_bottom_loop(o, h) ==
    IF h.s.panic # "" THEN h
    ELSE IF upper_child_whole_panics(h) THEN unwound(upper_child_whole_read(h))
    ELSE sift_down_to_bottom_step(o, upper_child_whole_read(h), upper_child_whole(o, h))
\* a sift_down_to_bottom that asks the policy before each move
sift_down_to_bottom_step_asking(o, h, c) ==
    IF c = NONE \/ ~can_move_down(o, h, c) THEN h
    ELSE sift_down_to_bottom_loop(o, move_to(h, c))

sift_down_to_bottom_step(o, h, c) ==
    IF c = NONE THEN h ELSE sift_down_to_bottom_loop(o, move_to(h, c))

sift_down_to_bottom_last(h, c) == into_pos(IF c # NONE THEN move_to(h, c) ELSE h)

sift_down_to_bottom_end(o, h) ==
    IF h.s.panic # "" THEN into_pos(h)
    ELSE IF upper_child_partial_panics(h) THEN into_pos(unwound(upper_child_partial_read(h)))
    ELSE sift_down_to_bottom_last(upper_child_partial_read(h), upper_child_partial(o, h))

sift_down_to_bottom(s, pos, o) ==
    IF s.panic # "" THEN <<s, pos>>
    ELSE sift_down_to_bottom_end(o,
             sift_down_to_bottom_loop(o, Hole_new(Call(s, "sift_down_to_bottom", pos), pos)))

\* a fixup_sift that only sifts up
fixup_sift_up_only(s, pos, o) == sift_up(s, pos, o)

\* the part of fixup_sift after its sift_up returned up
\* a fixup_sift that sifts down whether or not the element went up
fixup_sift_end_always(up, pos, o) == sift_down(up[1], pos, o)

fixup_sift_end(up, pos, o) == IF up[2] # pos THEN up ELSE sift_down(up[1], pos, o)

fixup_sift(s, pos, o) == fixup_sift_end(sift_up(s, pos, o), pos, o)

\* ------------------------------------------------------------ raw_heap.rs
\* a fixup_sift_to_bottom without the sift_up from the bottom
fixup_sift_to_bottom_no_up(s, pos, o) == sift_down_to_bottom(s, pos, o)

\* the sift_up of fixup_sift_to_bottom, from where sift_down_to_bottom ended
sift_up_from_bottom(down, o) == sift_up(down[1], down[2], o)

\* RawHeap::fixup_sift_to_bottom
fixup_sift_to_bottom(s, pos, o) == sift_up_from_bottom(sift_down_to_bottom(s, pos, o), o)

\* a pop_swap that hands the last slot's element back without the swap
pop_swap_unswapped(s, last_item, o) ==
    IF root(len(s)) # NONE THEN <<fixup_sift_to_bottom(s, root(len(s)), o)[1], last_item>>
    ELSE <<s, last_item>>

\* RawHeap::pop_swap : <<storage, the element handed back>>
pop_swap(s, last_item, o) ==
    IF root(len(s)) # NONE THEN
        <<fixup_sift_to_bottom(set_item(s, root(len(s)), last_item), root(len(s)), o)[1],
          get(s, root(len(s)))>>
    ELSE <<s, last_item>>

\* RawHeap::rebuild : sift_down of the positions hi, hi - 1, .. lo of
\* rebuild_range, in that order, until one panics.  The range is taken by halves
\* (upper half first), which keeps the order of the loop and nests its
\* evaluation no deeper than the logarithm of its length.
RECURSIVE rebuild_from(_, _, _, _)
rebuild_from(s, lo, hi, o) ==
    IF s.panic # "" \/ lo > hi THEN s
    ELSE IF lo = hi THEN sift_down(s, lo, o)[1]
    ELSE rebuild_from(rebuild_from(s, (lo + hi) \div 2 + 1, hi, o), lo, (lo + hi) \div 2, o)

\* a rebuild whose range starts at 1
rebuild_without_root(s, o) == rebuild_from(s, 1, rebuild_range(len(s)) - 1, o)

rebuild(s, o) == rebuild_from(s, 0, rebuild_range(len(s)) - 1, o)

\* the loop of rebuild_tail: sift_up of the positions lo, lo + 1, .. hi, in
\* that order, until one panics (the range taken by halves, lower half first)
RECURSIVE sift_up_from(_, _, _, _)
sift_up_from(s, lo, hi, o) ==
    IF s.panic # "" \/ lo > hi THEN s
    ELSE IF lo = hi THEN sift_up(s, lo, o)[1]
    ELSE sift_up_from(sift_up_from(s, lo, (lo + hi) \div 2, o), (lo + hi) \div 2 + 1, hi, o)

\* a rebuild_tail whose loop leaves out the first appended element
rebuild_tail_late(s, start, o) ==
    IF start = len(s) THEN s
    ELSE IF better_to_rebuild(len(s), start) THEN rebuild(s, o)
    ELSE sift_up_from(s, start + 1, len(s) - 1, o)

\* RawHeap::rebuild_tail
rebuild_tail(s, start, o) ==
    IF start = len(s) THEN s
    ELSE IF better_to_rebuild(len(s), start) THEN rebuild(s, o)
    ELSE sift_up_from(s, start, len(s) - 1, o)

\* ------------------------------------------------------------ the heaps
\* an element of the heap; the key is what the policy compares
Item(k, t) == [key |-> k, tag |-> t]
NoItem == Item(0, NONE)

\* what an operation hands back to its caller
RetUnit == [tag |-> "unit", item |-> NoItem, idx |-> NONE]
RetNone == [tag |-> "none", item |-> NoItem, idx |-> NONE]
RetSome(it) == [tag |-> "some", item |-> it, idx |-> NONE]
RetIdx(i) == [tag |-> "idx", item |-> NoItem, idx |-> i]
RetGuard == [tag |-> "guard", item |-> NoItem, idx |-> NONE]
RetPanic == [tag |-> "panic", item |-> NoItem, idx |-> NONE]

NoGuard == [kind |-> "none", pos |-> 0, sift |-> FALSE, via |-> NONE]

\* the heap's storage as it stands
Cur == Storage(facade, data, position, first_skip)

\* the operation ends with storage s and result r (a panic replaces the result)
Done(s, r) ==
    /\ data' = s.data
    /\ position' = s.position
    /\ first_skip' = s.first_skip
    /\ sifts' = s.calls
    /\ ret' = IF s.panic # "" THEN RetPanic ELSE r

\* Vec::pop / Vec::swap_remove on the backing sequence
without_last(d) == SubSeq(d, 1, Len(d) - 1)
\* a swap_remove that drops the last slot and leaves the one at pos
swap_removed_truncating(d, pos) == without_last(d)

swap_removed(d, pos) ==
    IF pos = Len(d) - 1 THEN without_last(d)
    ELSE [without_last(d) EXCEPT ![pos + 1] = d[Len(d)]]

\* IndexableVec::push : <<storage, index>>
IndexableVec_push(s, item) ==
    LET pos == len(s)
        added == SkipList_add(s, pos)
        index == added[2]
    IN <<[added[1] EXCEPT !.data = Append(s.data, [item |-> item, idx |-> index])],
         index>>

\* a pop that leaves the side table alone
IndexableVec_pop_unreleased(s) ==
    <<[s EXCEPT !.data = without_last(s.data)], s.data[Len(s.data)].item>>

\* IndexableVec::pop on a non-empty store : <<storage, item>>
IndexableVec_pop(s) ==
    LET last == s.data[Len(s.data)]
        w == [s EXCEPT !.data = without_last(s.data)]
    IN IF ~is_valid(w, last.idx) THEN <<Panic(w, "position contains invalid index"), last.item>>
       ELSE <<SkipList_remove(w, last.idx), last.item>>

\* a swap_remove that releases the handle of the last slot
IndexableVec_swap_remove_last(s, pos) ==
    LET gone == s.data[pos + 1]
        w == [s EXCEPT !.data = swap_removed(s.data, pos)]
    IN <<SkipList_remove(w, s.data[Len(s.data)].idx), gone.item>>

\* IndexableVec::swap_remove : <<storage, item>>
IndexableVec_swap_remove(s, pos) ==
    LET gone == s.data[pos + 1]
        w == [s EXCEPT !.data = swap_removed(s.data, pos)]
    IN IF ~is_valid(w, gone.idx) THEN <<Panic(w, "position contains invalid index"), gone.item>>
       ELSE <<SkipList_remove(w, gone.idx), gone.item>>

\* the sift_up of push on the storage s with the element appended; r is the result
push_sift(s, r, o) ==
    IF s.panic # "" THEN <<s, RetPanic>> ELSE <<sift_up(s, len(s) - 1, o)[1], r>>

idx_push_sift(pushed, o) == push_sift(pushed[1], RetIdx(pushed[2]), o)

\* VecHeap::push / IndexableHeap::push : <<storage, result>>
heap_push(s, item, o) ==
    IF s.kind = "idx" THEN idx_push_sift(IndexableVec_push(s, item), o)
    ELSE push_sift([s EXCEPT !.data = Append(s.data, item)], RetUnit, o)

\* the element r[2] handed back as Some
some_item(r) == <<r[1], RetSome(r[2])>>

\* the pop_swap of pop, given the storage without its last slot and that slot's element
pop_swap_last(popped, o) ==
    IF popped[1].panic # "" THEN <<popped[1], RetPanic>>
    ELSE some_item(pop_swap(popped[1], popped[2], o))

\* VecHeap::pop / IndexableHeap::pop (and the body of PeekMut::pop) : <<storage, result>>
heap_pop(s, o) ==
    IF len(s) = 0 THEN <<s, RetNone>>
    ELSE IF s.kind = "idx" THEN pop_swap_last(IndexableVec_pop(s), o)
    ELSE pop_swap_last(<<[s EXCEPT !.data = without_last(s.data)], s.data[Len(s.data)]>>, o)

\* the tracked element leaves the heap when an operation hands it back
Untrack(r) == tracked' = IF r.tag = "some" /\ r.item.tag = 1 THEN NONE ELSE tracked

\* the operation ends with r = <<storage, result>>, the result an element removed
Removed(r) == Done(r[1], r[2]) /\ Untrack(r[2])

\* a push ends with r = <<storage, result>>
Pushed(r, t) == Done(r[1], r[2]) /\ tracked' = IF t = 1 THEN r[2].idx ELSE tracked

\* VecHeap::push / IndexableHeap::push of an element of key k; t = 1 starts
\* following the handle returned for it
Push(k, t) ==
    /\ guard.kind = "none"
    /\ t = 1 => facade = "idx" /\ tracked = NONE
    /\ Pushed(heap_push(Cur, Item(k, t), ord), t)
    /\ UNCHANGED <<facade, ord, other, guard>>

\* VecHeap::pop / IndexableHeap::pop
Pop ==
    /\ guard.kind = "none"
    /\ Removed(heap_pop(Cur, ord))
    /\ UNCHANGED <<facade, ord, other, guard>>

\* RawHeap::peek : the result handed back
peek(s) == IF root(len(s)) = NONE THEN RetNone ELSE RetSome(get(s, root(len(s))))

\* VecHeap::peek / IndexableHeap::peek
Peek ==
    /\ guard.kind = "none"
    /\ Done(Cur, peek(Cur))
    /\ UNCHANGED <<facade, ord, other, guard, tracked>>

\* a peek_mut whose PeekMut::new does not look at is_empty
PeekMutOpen_unchecked ==
    /\ guard.kind = "none"
    /\ Done(Cur, RetGuard)
    /\ guard' = [kind |-> "peek", pos |-> 0, sift |-> FALSE, via |-> NONE]
    /\ UNCHANGED <<facade, ord, other, tracked>>

\* VecHeap::peek_mut / IndexableHeap::peek_mut (raw_heap::PeekMut::new)
PeekMutOpen ==
    /\ guard.kind = "none"
    /\ IF Len(data) = 0
       THEN Done(Cur, RetNone) /\ UNCHANGED guard
       ELSE /\ Done(Cur, RetGuard)
            /\ guard' = [kind |-> "peek", pos |-> root(Len(data)), sift |-> FALSE,
                         via |-> NONE]
    /\ UNCHANGED <<facade, ord, other, tracked>>

\* IndexableHeap::by_index
ByIndex(index) ==
    /\ facade = "idx"
    /\ guard.kind = "none"
    /\ LET pos == index_to_pos(Cur, index) IN
       Done(Cur, IF pos = NONE THEN RetPanic ELSE RetSome(get(Cur, pos)))
    /\ UNCHANGED <<facade, ord, other, guard, tracked>>

\* IndexableHeap::by_index_mut (GetMut::new)
ByIndexMut(index) ==
    /\ facade = "idx"
    /\ guard.kind = "none"
    /\ LET pos == index_to_pos(Cur, index) IN
       IF pos = NONE \/ ~(pos < Len(data))
       THEN Done(Cur, RetPanic) /\ UNCHANGED guard
       ELSE /\ Done(Cur, RetGuard)
            /\ guard' = [kind |-> "get", pos |-> pos, sift |-> FALSE, via |-> index]
    /\ UNCHANGED <<facade, ord, other, tracked>>

\* Deref of PeekMut / GetMut (PeekMut::as_ref, GetMut::as_ref)
GuardRead ==
    /\ guard.kind # "none"
    /\ Done(Cur, RetSome(get(Cur, guard.pos)))
    /\ UNCHANGED <<facade, ord, other, guard, tracked>>

\* PeekMut::index / GetMut::index
GuardIndex ==
    /\ facade = "idx"
    /\ guard.kind # "none"
    /\ Done(Cur, RetIdx(pos_to_index(Cur, guard.pos)))
    /\ UNCHANGED <<facade, ord, other, guard, tracked>>

\* a write through a guard that sets the sift flag whatever the heap holds
GuardWrite_flagging(k) ==
    /\ guard.kind # "none"
    /\ guard' = [guard EXCEPT !.sift = TRUE]
    /\ Done(set_item(Cur, guard.pos, [get(Cur, guard.pos) EXCEPT !.key = k]), RetUnit)
    /\ UNCHANGED <<facade, ord, other, tracked>>

\* DerefMut of PeekMut / GetMut (PeekMut::as_mut, GetMut::as_mut), then the
\* caller's write of key k through the reference
GuardWrite(k) ==
    /\ guard.kind # "none"
    /\ guard' = [guard EXCEPT !.sift =
                    IF guard.kind = "peek"
                    THEN guard.sift \/ child(Len(data), guard.pos, 0) # NONE
                    ELSE TRUE]
    /\ Done(set_item(Cur, guard.pos, [get(Cur, guard.pos) EXCEPT !.key = k]), RetUnit)
    /\ UNCHANGED <<facade, ord, other, tracked>>

\* a restore that sifts whether or not the guard was written through
restore_unconditional(s, g, o) ==
    IF g.kind = "peek" THEN sift_down(s, g.pos, o) ELSE fixup_sift(s, g.pos, o)

\* PeekMut::restore / GetMut::restore : <<storage, moved>>
moved_from(r, pos) == <<r[1], r[2] # pos>>

restore(s, g, o) ==
    IF ~g.sift THEN <<s, FALSE>>
    ELSE moved_from(IF g.kind = "peek" THEN sift_down(s, g.pos, o)
                    ELSE fixup_sift(s, g.pos, o), g.pos)

\* a restore that leaves the guard's sift flag as it was
restored_dirty(g) == g

\* PeekMut::restore / GetMut::restore : the guard as the call leaves it
restored(g) == [g EXCEPT !.sift = FALSE]

\* Drop for raw_heap::PeekMut (debug_assertions) on the storage s
raw_drop(s, g) ==
    IF g.kind = "peek" /\ g.sift /\ s.panic = ""
    THEN Panic(s, "PeekMut must be restored before dropping")
    ELSE s

\* a drop of the facade's guard that does not restore before the inner guard goes
dropped_unrestored(r, g, o) == <<raw_drop(r[1], g), r[2]>>

\* the drop of a guard g consumed by the operation that ended with r = <<storage, result>>
dropped(r, g, o) == <<raw_drop(restore(r[1], g, o)[1], restored(g)), r[2]>>

\* Drop for PeekMut / GetMut
GuardDrop ==
    /\ guard.kind # "none"
    /\ Done(dropped(<<Cur, RetUnit>>, guard, ord)[1], RetUnit)
    /\ guard' = NoGuard
    /\ UNCHANGED <<facade, ord, other, tracked>>

\* a PeekMut::pop that does not call ignore_mutation
ignore_mutation_forgotten(g) == g

\* raw_heap::PeekMut::ignore_mutation
ignore_mutation(g) == [g EXCEPT !.sift = FALSE]

\* raw_heap::PeekMut::heap_mut, then pop and pop_swap on the heap it hands out
heap_mut_pop(s, g, o) ==
    IF g.sift THEN <<Panic(s, "assertion failed: !self.sift"), RetPanic>>
    ELSE heap_pop(s, o)

\* PeekMut::pop (ignore_mutation, heap_mut, pop, pop_swap, then the drop)
GuardPop ==
    /\ guard.kind = "peek"
    /\ Removed(dropped(heap_mut_pop(Cur, ignore_mutation(guard), ord),
                       ignore_mutation(guard), ord))
    /\ guard' = NoGuard
    /\ UNCHANGED <<facade, ord, other>>

\* the repair of GetMut::remove after swap_remove returned removed = <<storage, item>>
remove_fixup(removed, pos, o) ==
    IF removed[1].panic = "" /\ pos < len(removed[1])
    THEN <<fixup_sift_to_bottom(removed[1], pos, o)[1], RetSome(removed[2])>>
    ELSE <<removed[1], RetSome(removed[2])>>

\* GetMut::remove : <<storage, result>>
GetMut_remove(s, g, o) == remove_fixup(IndexableVec_swap_remove(s, g.pos), g.pos, o)

\* GetMut::remove, then the drop of the consumed guard
GuardRemove ==
    /\ guard.kind = "get"
    /\ Removed(dropped(GetMut_remove(Cur, guard, ord), [guard EXCEPT !.sift = FALSE], ord))
    /\ guard' = NoGuard
    /\ UNCHANGED <<facade, ord, other>>

\* VecHeap::push on the second heap
OtherPush(k) ==
    /\ facade = "vec"
    /\ guard.kind = "none"
    /\ Len(data) + Len(other) < MaxLen
    /\ other' = heap_push(Storage("vec", other, <<>>, NextSkipNONE), Item(k, 0), ord)[1].data
    /\ ret' = RetUnit
    /\ sifts' = <<>>
    /\ UNCHANGED <<facade, ord, data, position, first_skip, guard, tracked>>

\* VecHeap::append : <<storage of self, data of other>>
\* w = <<storage of self, data of other>> after the swap
append_start(w) == len(w[1])

appended(w, o) ==
    <<rebuild_tail([w[1] EXCEPT !.data = w[1].data \o w[2]], append_start(w), o), <<>>>>

\* an append that keeps the two heaps as they were given
swapped_never(s, o_data) == <<s, o_data>>

\* std::mem::swap(self, other) when self is the shorter
swapped(s, o_data) ==
    IF len(s) < Len(o_data) THEN <<[s EXCEPT !.data = o_data], s.data>> ELSE <<s, o_data>>

append(s, o_data, o) == appended(swapped(s, o_data), o)

Appended(r) == Done(r[1], RetUnit) /\ other' = r[2]

Append_ ==
    /\ facade = "vec"
    /\ guard.kind = "none"
    /\ Appended(append(Cur, other, ord))
    /\ UNCHANGED <<facade, ord, guard, tracked>>

\* the state after VecHeap::new / IndexableHeap::new with a policy
Start ==
    /\ facade \in {"vec", "idx"}
    /\ ord \in {"max", "min"}
    /\ data = <<>>
    /\ other = <<>>
    /\ position = <<>>
    /\ first_skip = NextSkipNONE
    /\ guard = NoGuard
    /\ ret = RetUnit
    /\ sifts = <<>>
    /\ tracked = NONE

Init == Start /\ scn = <<>>

Next ==
    \/ \E k \in Keys : Len(data) < MaxLen /\ Push(k, 0) /\ UNCHANGED scn
    \/ Pop /\ UNCHANGED scn
    \/ Peek /\ UNCHANGED scn
    \/ PeekMutOpen /\ UNCHANGED scn
    \/ \E h \in Handles : ByIndex(h) /\ UNCHANGED scn
    \/ \E h \in Handles : ByIndexMut(h) /\ UNCHANGED scn
    \/ GuardRead /\ UNCHANGED scn
    \/ GuardIndex /\ UNCHANGED scn
    \/ \E k \in Keys : GuardWrite(k) /\ UNCHANGED scn
    \/ GuardDrop /\ UNCHANGED scn
    \/ GuardPop /\ UNCHANGED scn
    \/ GuardRemove /\ UNCHANGED scn
    \/ \E k \in Keys : OtherPush(k) /\ UNCHANGED scn
    \/ Len(data) + Len(other) <= MaxLen /\ Append_ /\ UNCHANGED scn

Spec == Init /\ [][Next]_vars

\* ------------------------------------------------- callers: a followed handle
\* The indexable heap with the handle of one element followed from its push to
\* its removal; scn.written is the value last written through that handle.
InitTrack == Start /\ facade = "idx" /\ scn = [written |-> 0]

TrackPush(k, t) ==
    /\ Len(data) < MaxLen
    /\ Push(k, t)
    /\ scn' = IF t = 1 THEN [written |-> k] ELSE scn

TrackWrite(k) ==
    /\ guard.kind = "get"
    /\ GuardWrite(k)
    /\ scn' = IF guard.via = tracked THEN [written |-> k] ELSE scn

NextTrack ==
    \/ \E k \in Keys, t \in {0, 1} : TrackPush(k, t)
    \/ Pop /\ UNCHANGED scn
    \/ PeekMutOpen /\ UNCHANGED scn
    \/ \E h \in Handles : ByIndexMut(h) /\ UNCHANGED scn
    \/ \E k \in Keys : TrackWrite(k)
    \/ GuardDrop /\ UNCHANGED scn
    \/ GuardPop /\ UNCHANGED scn
    \/ GuardRemove /\ UNCHANGED scn

SpecTrack == InitTrack /\ [][NextTrack]_vars

\* --------------------------------------------- callers: push all, then pop all
\* tests min_heap / max_heap with any elements: scn.pushed are the keys pushed,
\* scn.popped the results of the pops that followed
InitSort == Start /\ scn = [pushed |-> <<>>, popped |-> <<>>]

SortPush(k) ==
    /\ scn.popped = <<>>
    /\ Len(data) < MaxSort
    /\ Push(k, 0)
    /\ scn' = [scn EXCEPT !.pushed = Append(@, k)]

SortPop ==
    /\ Len(scn.popped) <= Len(scn.pushed)
    /\ Pop
    /\ scn' = [scn EXCEPT !.popped = Append(@, ret')]

NextSort ==
    \/ \E k \in Keys : SortPush(k)
    \/ SortPop

SpecSort == InitSort /\ [][NextSort]_vars

\* the keys the pops return until the heap is empty
RECURSIVE drained(_, _)
popped_then_drained(r, o) == <<r[2].item.key>> \o drained(r[1], o)
drained(s, o) == IF len(s) = 0 \/ s.panic # "" THEN <<>> ELSE popped_then_drained(heap_pop(s, o), o)

\* the pushes of the keys ks from the i-th on: <<storage, handles returned>>
RECURSIVE pushed_all(_, _, _, _, _)
pushed_next(r, hs, ks, i, o) == pushed_all(r[1], Append(hs, r[2].idx), ks, i + 1, o)
pushed_all(s, hs, ks, i, o) ==
    IF i > Len(ks) THEN <<s, hs>> ELSE pushed_next(heap_push(s, Item(ks[i], 0), o), hs, ks, i, o)

\* the write of key v through by_index_mut(h) and the release of the guard
written_through(s, h, v, o) ==
    restore(set_item(s, index_to_pos(s, h), Item(v, 0)),
            [kind |-> "get", pos |-> index_to_pos(s, h), sift |-> TRUE, via |-> h], o)[1]

\* test unordered_heap_mut: the keys its pops collect.  a is the heap after the
\* eight pushes with the handles, p the heap after the two pops.
unordered_heap_mut_rest(a, p1, p2) ==
    <<p1[2].item.key, p2[2].item.key>> \o drained(written_through(p2[1], a[2][4], 1, "min"), "min")

unordered_heap_mut_pops(a, p1) == unordered_heap_mut_rest(a, p1, heap_pop(p1[1], "min"))

unordered_heap_mut_pushed(a) == unordered_heap_mut_pops(a, heap_pop(a[1], "min"))

unordered_heap_mut ==
    unordered_heap_mut_pushed(
        pushed_all(Storage("idx", <<>>, <<>>, NextSkipNONE), <<>>,
                   <<3, 15, 1, 42, 7, 6, 5, 64>>, 1, "min"))

\* ------------------------------------- callers: write through a handle, drain
\* test unordered_heap_mut with any elements: pushes and pops, then one write
\* of scn.v through by_index_mut(scn.h) at position scn.from, the release of the
\* guard, and pops until the heap is empty
InitMut ==
    /\ Start
    /\ facade = "idx"
    /\ scn = [phase |-> "build", h |-> NONE, from |-> NONE, v |-> 0, before |-> <<>>,
              popped |-> <<>>]

MutPush(k) ==
    /\ scn.phase = "build"
    /\ Len(data) < MaxLen
    /\ Push(k, 0)
    /\ UNCHANGED scn

MutPrePop == scn.phase = "build" /\ Pop /\ UNCHANGED scn

MutOpen(h) ==
    /\ scn.phase = "build"
    /\ ByIndexMut(h)
    /\ scn' = IF ret'.tag = "guard"
              THEN [scn EXCEPT !.phase = "open", !.h = h, !.from = guard'.pos]
              ELSE scn

MutWrite(v) ==
    /\ scn.phase = "open"
    /\ GuardWrite(v)
    /\ scn' = [scn EXCEPT !.phase = "written", !.v = v,
                          !.before = [p \in 1..Len(data) |-> data[p].item.key]]

MutDrop == scn.phase = "written" /\ GuardDrop /\ scn' = [scn EXCEPT !.phase = "drain"]

MutPop ==
    /\ scn.phase = "drain"
    /\ Len(scn.popped) <= Len(scn.before)
    /\ Pop
    /\ scn' = [scn EXCEPT !.popped = Append(@, ret')]

NextMut ==
    \/ \E k \in Keys : MutPush(k)
    \/ MutPrePop
    \/ \E h \in Handles : MutOpen(h)
    \/ \E v \in Keys : MutWrite(v)
    \/ MutDrop
    \/ MutPop

SpecMut == InitMut /\ [][NextMut]_vars

\* ------------------------------- callers: push k, remove all k, push k again
\* Any use of the heap that leaves it empty (phase "use"), then k pushes (phase
\* "first", handles scn.h1), the removal of all k by pop or by handle (phase
\* "remove"), then k pushes again (phase "second", handles scn.h2).  scn.len0
\* is the side table's length when the first pushes start, scn.grown the
\* greatest length it grew to since, scn.by the kinds of removal used.
InitRecycle ==
    /\ Start
    /\ facade = "idx"
    /\ scn = [phase |-> "use", k |-> 0, n2 |-> 0, h1 |-> {}, h2 |-> {}, len0 |-> 0,
              grown |-> 0, by |-> {}]

\* the greatest length the table grew to, after a step from table p to table q
Grown(g, p, q) == IF Len(q) > Len(p) /\ Len(q) > g THEN Len(q) ELSE g

RecUse ==
    /\ scn.phase = "use"
    /\ \/ \E k \in Keys : Len(data) < MaxLen /\ Push(k, 0)
       \/ Pop
       \/ \E h \in Handles : ByIndexMut(h)
       \/ GuardRemove
    /\ UNCHANGED scn

RecPush1(k) ==
    /\ scn.phase \in {"use", "first"}
    /\ scn.phase = "use" => data = <<>>
    /\ Len(data) < MaxLen
    /\ Push(k, 0)
    /\ scn' = [scn EXCEPT !.phase = "first", !.k = @ + 1, !.h1 = @ \cup {ret'.idx},
                          !.len0 = IF scn.phase = "use" THEN Len(position) ELSE @,
                          !.grown = Grown(@, position, position')]

\* the phase after a removal that left d stored
RecRemoved(d, by) ==
    scn' = [scn EXCEPT !.phase = IF d = <<>> THEN "second" ELSE "remove",
                       !.grown = Grown(@, position, position'),
                       !.by = @ \cup by]

RecPop ==
    /\ scn.phase \in {"first", "remove"}
    /\ Pop
    /\ RecRemoved(data', {"pop"})

RecOpen(h) ==
    /\ scn.phase \in {"first", "remove"}
    /\ ByIndexMut(h)
    /\ scn' = [scn EXCEPT !.phase = "remove"]

RecRemove ==
    /\ scn.phase = "remove"
    /\ GuardRemove
    /\ RecRemoved(data', {"remove"})

RecPush2(k) ==
    /\ scn.phase = "second"
    /\ scn.n2 < scn.k
    /\ Push(k, 0)
    /\ scn' = [scn EXCEPT !.n2 = @ + 1, !.h2 = @ \cup {ret'.idx},
                          !.grown = Grown(@, position, position')]

NextRecycle ==
    \/ RecUse
    \/ \E k \in Keys : RecPush1(k)
    \/ RecPop
    \/ \E h \in Handles : RecOpen(h)
    \/ RecRemove
    \/ \E k \in Keys : RecPush2(k)

SpecRecycle == InitRecycle /\ [][NextRecycle]_vars

\* ------------------------------------------- callers: append of two heaps
\* Two plain heaps as pushes in the policy's order leave them (a sorted run is
\* stored as pushed): self of la elements and other of lb.  pat tells how the
\* keys of other stand to those of self: "level" (interleaved), "ahead" (every
\* key of other is preferred over every key of self) or "equal" (one key only).
sorted_run(n, o, off) ==
    [i \in 1..n |-> Item(IF o = "max" THEN 2 * (n - i) + 1 + off ELSE 2 * i - 1 + off, 0)]

self_run(la, lb, o, pat) ==
    IF pat = "equal" THEN [i \in 1..la |-> Item(1, 0)]
    ELSE sorted_run(la, o, IF pat = "ahead" /\ o = "min" THEN 2 * lb + 1 ELSE 1)

other_run(la, lb, o, pat) ==
    IF pat = "equal" THEN [i \in 1..lb |-> Item(1, 0)]
    ELSE sorted_run(lb, o, IF pat = "ahead" /\ o = "max" THEN 2 * la + 2 ELSE 0)

\* the lengths and key patterns of the two heaps
AppendCases ==
    ((0..MaxStart) \X (0..MaxStart) \X {"level", "ahead", "equal"})
        \cup ({BigStart} \X {BigTail, BigTail - BigGap} \X {"level"})

\* scn.a and scn.b are the two heaps before the call, scn.start the length
\* rebuild_tail was called with, scn.op the call made
InitAppend ==
    /\ facade = "vec"
    /\ ord \in {"max", "min"}
    /\ \E c \in AppendCases :
          /\ data = self_run(c[1], c[2], ord, c[3])
          /\ other = other_run(c[1], c[2], ord, c[3])
    /\ position = <<>>
    /\ first_skip = NextSkipNONE
    /\ guard = NoGuard
    /\ ret = RetUnit
    /\ sifts = <<>>
    /\ tracked = NONE
    /\ scn = [op |-> "new", a |-> data, b |-> other, start |-> 0]

\* a.append(b)
AppendCall ==
    /\ scn.op = "new"
    /\ Append_
    /\ scn' = [scn EXCEPT !.op = "append", !.start = append_start(swapped(Cur, other))]

\* Vec::append of b to the data of a and rebuild_tail from the old length, as
\* append does when it does not swap the two heaps
RebuildTailCall ==
    /\ scn.op = "new"
    /\ Done(rebuild_tail([Cur EXCEPT !.data = data \o other], Len(data), ord), RetUnit)
    /\ other' = <<>>
    /\ scn' = [scn EXCEPT !.op = "rebuild_tail", !.start = Len(data)]
    /\ UNCHANGED <<facade, ord, guard, tracked>>

NextAppend ==
    \/ AppendCall
    \/ RebuildTailCall

SpecAppend == InitAppend /\ [][NextAppend]_vars

\* ------------------------------------ callers: any use, the operations noted
\* Any use of either heap; scn.op is the operation the caller made last when it
\* was one of pop, peek, peek_mut, PeekMut::pop or the drop of a guard ("use" for
\* any other), scn.prev whether the one before it was a peek.
InitOps == Start /\ scn = [op |-> "new", prev |-> "use"]

Noted(name) == scn' = [op |-> name, prev |-> IF scn.op = "peek" THEN "peek" ELSE "use"]

NextOps ==
    \/ \E k \in Keys : Len(data) < MaxLen /\ Push(k, 0) /\ Noted("use")
    \/ Pop /\ Noted("pop")
    \/ Peek /\ Noted("peek")
    \/ PeekMutOpen /\ Noted("peek_mut")
    \/ \E h \in Handles : ByIndexMut(h) /\ Noted("use")
    \/ GuardRead /\ Noted("use")
    \/ \E k \in Keys : GuardWrite(k) /\ Noted("use")
    \/ GuardDrop /\ Noted("drop")
    \/ GuardPop /\ Noted("PeekMut::pop")
    \/ GuardRemove /\ Noted("use")

SpecOps == InitOps /\ [][NextOps]_vars

\* ------------------------------------------------- a policy that can panic
\* The caller's heap is ordered by a comparison that panics on the key
\* Unordered.  The caller pushes a run of keys, going on after each panic it
\* catches; then one sift is run at one position of the heap so built.
PanicKeys == (1..MaxPanicKey) \cup {Unordered}

\* the storage the caller goes on with after the operation that left s
caught(s) == Storage(s.kind, s.data, s.position, s.first_skip)

\* the heap after pushing the keys ks in turn
RECURSIVE pushed(_, _, _)
pushed(s, ks, o) ==
    IF ks = <<>> THEN s
    ELSE pushed(caught(heap_push(s, Item(Head(ks), 0), o)[1]), Tail(ks), o)

InitPanic ==
    /\ facade \in {"vec", "idx"}
    /\ ord \in {"max", "min"}
    /\ \E n \in 0..MaxPanicLen : \E ks \in [1..n -> PanicKeys] :
          /\ data = pushed(Storage(facade, <<>>, <<>>, NextSkipNONE), ks, ord).data
          /\ position = pushed(Storage(facade, <<>>, <<>>, NextSkipNONE), ks, ord).position
          /\ first_skip = pushed(Storage(facade, <<>>, <<>>, NextSkipNONE), ks, ord).first_skip
    /\ other = <<>>
    /\ guard = NoGuard
    /\ ret = RetUnit
    /\ sifts = <<>>
    /\ tracked = NONE
    /\ scn = [op |-> "new", pos |-> 0, before |-> <<>>, at |-> 0, writes |-> 0]

\* the sift named op was run at pos and left r = <<storage, position>>; scn.at
\* is the position it returned, scn.writes the slots it wrote
Sifted(op, pos, r) ==
    /\ scn.op = "new"
    /\ Done(r[1], RetUnit)
    /\ scn' = [op |-> op, pos |-> pos, before |-> data, at |-> r[2], writes |-> r[1].writes]
    /\ UNCHANGED <<facade, ord, other, guard, tracked>>

\* RawHeap::sift_up
SiftUpCall(pos) == pos < Len(data) /\ Sifted("sift_up", pos, sift_up(Cur, pos, ord))

\* RawHeap::sift_down
SiftDownCall(pos) == pos < Len(data) /\ Sifted("sift_down", pos, sift_down(Cur, pos, ord))

\* RawHeap::sift_down_to_bottom
SiftDownToBottomCall(pos) ==
    pos < Len(data) /\ Sifted("sift_down_to_bottom", pos, sift_down_to_bottom(Cur, pos, ord))

NextPanic ==
    \/ \E pos \in 0..(MaxPanicLen - 1) : SiftUpCall(pos)
    \/ \E pos \in 0..(MaxPanicLen - 1) : SiftDownCall(pos)
    \/ \E pos \in 0..(MaxPanicLen - 1) : SiftDownToBottomCall(pos)

SpecPanic == InitPanic /\ [][NextPanic]_vars

\* ------------------------------------------------- the sifts on any sequence
\* The backing sequence holds any keys in any arrangement (a guard that is
\* forgotten after a write leaves the key where it was written); one of the
\* algorithms of RawHeap is run on it.
SiftKeys == 1..MaxSiftKey

\* the slots of a store holding the keys ks, each under the handle of its position
slots(f, ks) ==
    [i \in 1..Len(ks) |->
        IF f = "idx" THEN [item |-> Item(ks[i], 0), idx |-> i - 1] ELSE Item(ks[i], 0)]

InitSift ==
    /\ facade \in {"vec", "idx"}
    /\ ord \in {"max", "min"}
    /\ \E n \in 0..MaxSiftLen : \E ks \in [1..n -> SiftKeys] :
          /\ data = slots(facade, ks)
          /\ position = IF facade = "idx" THEN [i \in 1..n |-> from_pos(i - 1)] ELSE <<>>
    /\ first_skip = NextSkipNONE
    /\ other = <<>>
    /\ guard = NoGuard
    /\ ret = RetUnit
    /\ sifts = <<>>
    /\ tracked = NONE
    /\ scn = [op |-> "new", pos |-> 0, before |-> <<>>, at |-> 0, writes |-> 0]

\* RawHeap::fixup_sift
FixupSiftCall(pos) == pos < Len(data) /\ Sifted("fixup_sift", pos, fixup_sift(Cur, pos, ord))

\* RawHeap::rebuild
RebuildCall == Sifted("rebuild", 0, <<rebuild(Cur, ord), 0>>)

\* RawHeap::rebuild_tail
RebuildTailFrom(start) ==
    start <= Len(data) /\ Sifted("rebuild_tail", start, <<rebuild_tail(Cur, start, ord), 0>>)

\* the facade's pop: the last slot is removed, then RawHeap::pop_swap
PopCall ==
    /\ scn.op = "new"
    /\ Pop
    /\ scn' = [op |-> "pop", pos |-> 0, before |-> data, at |-> 0, writes |-> 0]

NextSift ==
    \/ \E pos \in 0..(MaxSiftLen - 1) : SiftUpCall(pos)
    \/ \E pos \in 0..(MaxSiftLen - 1) : SiftDownCall(pos)
    \/ \E pos \in 0..(MaxSiftLen - 1) : SiftDownToBottomCall(pos)
    \/ \E pos \in 0..(MaxSiftLen - 1) : FixupSiftCall(pos)
    \/ RebuildCall
    \/ \E start \in 0..MaxSiftLen : RebuildTailFrom(start)
    \/ PopCall

SpecSift == InitSift /\ [][NextSift]_vars

\* ------------------------------------- callers: the most elements ever stored
\* Any use of the indexable heap; scn.high is the greatest number of elements
\* the heap has held at one time since it was constructed (the handles 0 to
\* scn.high - 1 are the ones push has returned), scn.by the handle the caller
\* passed if its last call was by_index or by_index_mut.
InitTable == Start /\ facade = "idx" /\ scn = [high |-> 0, by |-> NONE]

Stored(h) ==
    scn' = [high |-> IF Len(data') > scn.high THEN Len(data') ELSE scn.high, by |-> h]

NextTable ==
    \/ \E k \in Keys : Len(data) < MaxLen /\ Push(k, 0) /\ Stored(NONE)
    \/ Pop /\ Stored(NONE)
    \/ PeekMutOpen /\ Stored(NONE)
    \/ \E h \in Handles : ByIndex(h) /\ Stored(h)
    \/ \E h \in Handles : ByIndexMut(h) /\ Stored(h)
    \/ \E k \in Keys : GuardWrite(k) /\ Stored(NONE)
    \/ GuardDrop /\ Stored(NONE)
    \/ GuardPop /\ Stored(NONE)
    \/ GuardRemove /\ Stored(NONE)

SpecTable == InitTable /\ [][NextTable]_vars

\* ------------------------------------------------------- the tree functions
\* The functions of tree.rs applied to a storage of any length (tests::children
\* applies them to slices) at one of its positions, in a build with overflow
\* checks ("debug") or without ("release").  scn.out is the value returned
\* (NONE for Option::None, PANICKED if the call panicked), scn.yields what the
\* children iterator yielded.
PANICKED == -2

TreeLengths == (0..TreeLen) \cup ((UsizeRange - 1 - TreeTop)..(UsizeRange - 1))

\* the positions taken of a storage of the given length: the first, the last
\* and those about the middle of the word
TreePositions(length) ==
    {q \in (0..TreeLen) \cup ((length - 1 - TreeTop)..(length - 1))
            \cup ((UsizeRange \div 2 - TreeTop)..(UsizeRange \div 2 + TreeTop)) :
        0 <= q /\ q < length}

InitTree ==
    /\ facade = "vec"
    /\ ord = "max"
    /\ data = <<>>
    /\ other = <<>>
    /\ position = <<>>
    /\ first_skip = NextSkipNONE
    /\ guard = NoGuard
    /\ ret = RetUnit
    /\ sifts = <<>>
    /\ tracked = NONE
    /\ \E length \in TreeLengths : \E pos \in TreePositions(length) :
          scn = [op |-> "new", length |-> length, pos |-> pos, index |-> 0,
                 build |-> "debug", out |-> NONE, yields |-> <<>>]

\* a tree function was called and returned out (or panicked)
Answered(op, index, build, out, yields) ==
    /\ scn.op = "new"
    /\ scn' = [scn EXCEPT !.op = op, !.index = index, !.build = build, !.out = out,
                          !.yields = yields]
    /\ ret' = IF out = PANICKED THEN RetPanic ELSE RetUnit
    /\ UNCHANGED <<facade, ord, data, other, position, first_skip, guard, sifts, tracked>>

\* tree::parent
ParentCall == Answered("parent", 0, "debug", parent(scn.pos), <<>>)

\* tree::child
ChildCall(index, build) ==
    Answered("child", index, build,
             IF build = "debug" /\ child_overflows(scn.pos, index) THEN PANICKED
             ELSE child(scn.length, scn.pos, index), <<>>)

\* tree::nchildren
NChildrenCall(build) ==
    Answered("nchildren", 0, build,
             IF build = "debug" /\ nchildren_overflows(scn.pos) THEN PANICKED
             ELSE nchildren(scn.length, scn.pos), <<>>)

\* tree::children, the iterator run to its end
ChildrenCall(build) ==
    IF build = "debug"
          /\ \/ nchildren_overflows(scn.pos)
             \/ \E i \in 1..nchildren(scn.length, scn.pos) : child_overflows(scn.pos, i - 1)
    THEN Answered("children", 0, build, PANICKED, <<>>)
    ELSE Answered("children", 0, build, nchildren(scn.length, scn.pos),
                  children(scn.length, scn.pos))

NextTree ==
    \/ ParentCall
    \/ \E index \in {0, 1}, build \in {"debug", "release"} : ChildCall(index, build)
    \/ \E build \in {"debug", "release"} : NChildrenCall(build)
    \/ \E build \in {"debug", "release"} : ChildrenCall(build)

SpecTree == InitTree /\ [][NextTree]_vars

\* ================================================================ properties
\* the order of removal of the policy o: a leaves the heap no later than b
first_out(o, a, b) == IF o = "max" THEN a >= b ELSE a <= b

\* a reference sort (insertion sort) of the keys ks into the order of removal
RECURSIVE inserted(_, _, _)
inserted(o, sorted, k) ==
    IF sorted = <<>> THEN <<k>>
    ELSE IF first_out(o, k, Head(sorted)) THEN <<k>> \o sorted
    ELSE <<Head(sorted)>> \o inserted(o, Tail(sorted), k)

RECURSIVE sorted_keys(_, _)
sorted_keys(o, ks) ==
    IF ks = <<>> THEN <<>> ELSE inserted(o, sorted_keys(o, Tail(ks)), Head(ks))

\* the results rs of successive pops are the keys ks in the order of removal,
\* followed by the empty result
pops_in_order(o, rs, ks) ==
    \A i \in 1..Len(rs) :
        IF i <= Len(ks)
        THEN rs[i].tag = "some" /\ rs[i].item.key = sorted_keys(o, ks)[i]
        ELSE rs[i] = RetNone

\* at no position p > 0 does the policy prefer the element at p over its parent
heap_ordered(s, o) ==
    \A p \in 1..(len(s) - 1) : ~should_sift_up(o, get(s, p), get(s, parent(p)))

\* C1: whenever no guard is open (every push, pop, append, removal and every
\* mutate-then-release has completed), at no position p > 0 of the heap does the
\* ordering policy prefer the element at p over the element at (p-1)/2; the same
\* holds of the second plain heap that append consumes.
C1_HeapProperty ==
    guard.kind = "none" =>
        (/\ heap_ordered(Cur, ord)
         /\ heap_ordered(Storage("vec", other, <<>>, NextSkipNONE), ord))

\* a full indexable heap just after the release of a by_index_mut guard whose
\* written element moved down (sift_up, then sift_down)
C1_Witness ==
    /\ facade = "idx"
    /\ guard.kind = "none"
    /\ ret = RetUnit
    /\ Len(data) = MaxLen
    /\ Len(sifts) = 2
    /\ sifts[2][1] = "sift_down"
    /\ data[1].item.key # data[MaxLen].item.key

C3_HandleStability ==
    (tracked # NONE /\ guard.kind = "none") =>
        (/\ index_to_pos(Cur, tracked) # NONE
         /\ get(Cur, index_to_pos(Cur, tracked)).key = scn.written)

\* C4: while the element pushed with handle h (tracked) is stored, its handle is
\* not released: no push of another element returns h.
C4_HandleNotReissued ==
    [][(/\ tracked # NONE
        /\ tracked' = tracked
        /\ Len(data') = Len(data) + 1
        /\ ret'.tag = "idx") => ret'.idx # tracked]_vars

\* C5: between operations of the indexable heap, the side-table entry at the
\* handle stored in an occupied position p is a data entry equal to p, every data
\* entry of the table is that of one occupied position, and a guard obtained by
\* by_index_mut(h) stands at the position of h and reports index() = h.
C5_Bijection ==
    facade = "idx" =>
        (/\ \A p \in 0..(Len(data) - 1) :
                /\ is_valid(Cur, pos_to_index(Cur, p))
                /\ index_to_pos(Cur, pos_to_index(Cur, p)) = p
         /\ \A h \in 0..(Len(position) - 1) :
                is_data(position[h + 1]) =>
                    (/\ index_to_pos(Cur, h) # NONE
                     /\ pos_to_index(Cur, index_to_pos(Cur, h)) = h)
         /\ guard.kind = "get" => pos_to_index(Cur, guard.pos) = guard.via
         /\ (guard.kind = "get" /\ ret.tag = "idx") => ret.idx = guard.via)

\* GetMut::index just answered for an element that is not at the position of its
\* handle's number, in a table with a released entry
C5_Witness ==
    /\ facade = "idx"
    /\ guard.kind = "get"
    /\ ret.tag = "idx"
    /\ guard.pos # guard.via
    /\ first_skip # NextSkipNONE
    /\ Len(data) >= 2

\* C6: by_index_mut(h).remove() for the handle h (tracked) of a stored element
\* returns that element.
C6_RemovalReturnsElement ==
    [][(/\ guard.kind = "get"
        /\ guard.via = tracked
        /\ guard'.kind = "none"
        /\ ret'.tag = "some") => ret'.item.tag = 1]_vars

\* C7: after a value v is written through by_index_mut(h) and the guard is
\* released, by_index(h) reads v and the pops return the stored keys, with v in
\* place of the key written over, in the policy's order and then the empty
\* result; test unordered_heap_mut collects 1, 3, 1, 5, 6, 7, 15, 64.
C7_MutationByHandle ==
    /\ scn.phase = "drain" =>
        (/\ scn.popped = <<>> =>
                (/\ index_to_pos(Cur, scn.h) # NONE
                 /\ get(Cur, index_to_pos(Cur, scn.h)).key = scn.v)
         /\ pops_in_order(ord, scn.popped, [scn.before EXCEPT ![scn.from + 1] = scn.v]))
    /\ unordered_heap_mut = <<1, 3, 1, 5, 6, 7, 15, 64>>

\* a full heap drained after a write that moved the written element
C7_Witness ==
    /\ scn.phase = "drain"
    /\ Len(scn.before) = MaxLen
    /\ Len(scn.popped) = MaxLen + 1
    /\ scn.before[scn.from + 1] # scn.v
    /\ sorted_keys(ord, scn.before) # sorted_keys(ord, [scn.before EXCEPT ![scn.from + 1] = scn.v])
    /\ scn.popped[1].item.key = scn.v
    /\ scn.from # 0

\* C8 as stated: from any empty indexable heap, after k pushes and the removal
\* of all k, the next k pushes return the same set of handles and the side table
\* never grew longer than k.
C8_Recycling ==
    (scn.phase = "second" /\ scn.n2 = scn.k) =>
        (scn.h2 = scn.h1 /\ scn.grown <= scn.k)

\* C8 as amended: the same, from an empty indexable heap whose side table holds
\* at most k entries (a newly constructed heap holds none).
C8_RecyclingShortTable ==
    (scn.phase = "second" /\ scn.n2 = scn.k /\ scn.len0 <= scn.k) =>
        (scn.h2 = scn.h1 /\ scn.grown <= scn.k)

\* k >= 2 pushes into a heap emptied before with entries left in its table, all
\* removed by a mix of pop and removal by handle, and k pushes again
C8_Witness ==
    /\ scn.phase = "second"
    /\ scn.n2 = scn.k
    /\ scn.k >= 2
    /\ scn.len0 >= 1
    /\ scn.len0 <= scn.k
    /\ scn.by = {"pop", "remove"}

\* the walk along the skip links of the table tab from next: whether it ended at
\* NONE without leaving the table, meeting a data entry or coming back, and the
\* indices it visited
RECURSIVE chain_walk(_, _, _)
chain_walk(tab, next, seen) ==
    IF next = NextSkipNONE THEN [ok |-> TRUE, seen |-> seen]
    ELSE IF \/ NextSkip_get(next) >= Len(tab)
            \/ NextSkip_get(next) \in seen
            \/ is_data(tab[NextSkip_get(next) + 1])
         THEN [ok |-> FALSE, seen |-> seen]
    ELSE chain_walk(tab, tab[NextSkip_get(next) + 1].val, seen \cup {NextSkip_get(next)})

\* C9: the skip links from first_skip visit exactly the side-table indices that
\* are not data entries, each once, and end at NONE without looping or leaving
\* the table.
C9_FreeChain ==
    facade = "idx" =>
        (/\ chain_walk(position, first_skip, {}).ok
         /\ chain_walk(position, first_skip, {}).seen =
                {i \in 0..(Len(position) - 1) : ~is_data(position[i + 1])})

\* two released entries chained below a data entry, an element stored
C9_Witness ==
    /\ facade = "idx"
    /\ guard.kind = "none"
    /\ Len(position) = MaxLen
    /\ Cardinality({i \in 0..(Len(position) - 1) : ~is_data(position[i + 1])}) = 2
    /\ first_skip = NextSkip_some(0)

\* C10: the drop of a peek_mut or by_index_mut guard through which nothing was
\* written (its sift flag is clear) leaves every element at its position, leaves
\* the side table as it was and calls no sift.
C10_IdempotentRestoration ==
    [][(/\ guard.kind # "none"
        /\ ~guard.sift
        /\ guard'.kind = "none"
        /\ ret' = RetUnit) =>
            (/\ data' = data
             /\ position' = position
             /\ first_skip' = first_skip
             /\ sifts' = <<>>)]_vars

\* an indexable heap of two or more elements just after such a drop: only the
\* drop of a guard returns nothing and calls no sift there
C10_Witness ==
    /\ facade = "idx"
    /\ guard.kind = "none"
    /\ ret = RetUnit
    /\ sifts = <<>>
    /\ Len(data) >= 2

\* C11: on a non-empty heap, after any use of it, peek returns an element over
\* which the policy prefers no stored element and changes nothing; the pop that
\* follows the peek returns the same value and shortens the heap by exactly one.
C11_TopElement ==
    [][/\ (scn'.op = "peek" /\ data # <<>>) =>
            (/\ ret'.tag = "some"
             /\ \A p \in 0..(Len(data) - 1) : ~should_sift_up(ord, get(Cur, p), ret'.item)
             /\ data' = data
             /\ position' = position
             /\ first_skip' = first_skip
             /\ guard' = guard)
       /\ (scn.op = "peek" /\ scn'.op = "pop" /\ ret.tag = "some") =>
            (ret' = ret /\ Len(data') = Len(data) - 1)]_vars

\* the pop after a peek of a full heap handed back a key that the heap still
\* holds a different key next to
C11_Witness ==
    /\ scn.op = "pop"
    /\ scn.prev = "peek"
    /\ ret.tag = "some"
    /\ Len(data) = MaxLen - 1
    /\ ret.item.key # get(Cur, 0).key
    /\ get(Cur, 0).key # get(Cur, 1).key

\* C12: pop, peek and peek_mut on an empty heap return the empty result and
\* leave the heap empty, with no guard open and the side table and the free
\* chain as they were.
C12_EmptyHeap ==
    [][(data = <<>> /\ scn'.op \in {"pop", "peek", "peek_mut"}) =>
            (/\ ret' = RetNone
             /\ data' = <<>>
             /\ position' = position
             /\ first_skip' = first_skip
             /\ guard' = NoGuard
             /\ sifts' = <<>>)]_vars

\* peek_mut just answered on an emptied indexable heap whose side table keeps a
\* released entry at the head of the free chain
C12_Witness ==
    /\ facade = "idx"
    /\ scn.op = "peek_mut"
    /\ data = <<>>
    /\ ret = RetNone
    /\ Len(position) >= 1
    /\ first_skip # NextSkipNONE

\* C13: PeekMut::pop returns the value standing at the root (with what was
\* written through the guard), leaves the heap one shorter with the heap property
\* holding and no guard open, whether or not the guard was marked, and makes only
\* the sifts of pop_swap: the drop of the consumed guard sifts nothing.
C13_PeekMutPop ==
    [][scn'.op = "PeekMut::pop" =>
            (/\ ret' = RetSome(get(Cur, 0))
             /\ Len(data') = Len(data) - 1
             /\ heap_ordered(Cur', ord)
             /\ guard' = NoGuard
             /\ IF Len(data) = 1 THEN sifts' = <<>>
                ELSE /\ Len(sifts') = 2
                     /\ sifts'[1] = <<"sift_down_to_bottom", 0>>
                     /\ sifts'[2][1] = "sift_up")]_vars

\* PeekMut::pop just handed back a value over which the policy prefers the new
\* root: the root had been written through the guard before it was popped
C13_Witness ==
    /\ facade = "idx"
    /\ scn.op = "PeekMut::pop"
    /\ ret.tag = "some"
    /\ Len(data) = MaxLen - 1
    /\ should_sift_up(ord, get(Cur, 0), ret.item)

\* how many elements of the sequence d have the key k
count(d, k) == Cardinality({i \in DOMAIN d : d[i].key = k})

\* d holds the elements of a and of b together, each as many times as they do
same_elements(d, a, b) ==
    \A k \in {d[i].key : i \in DOMAIN d} \cup {a[i].key : i \in DOMAIN a}
                \cup {b[i].key : i \in DOMAIN b} :
        count(d, k) = count(a, k) + count(b, k)

\* C14: after a.append(b) on two plain heaps, b is empty, a holds the elements
\* both held before, each as many times as the two held it (its length is the
\* sum of the two lengths), and the heap property holds on a.
C14_Append ==
    scn.op = "append" =>
        (/\ other = <<>>
         /\ Len(data) = Len(scn.a) + Len(scn.b)
         /\ same_elements(data, scn.a, scn.b)
         /\ heap_ordered(Cur, ord))

\* an append of a longer heap to a shorter one that rebuilt the whole heap and
\* left the elements in another order than the two heaps had them
C14_Witness ==
    /\ scn.op = "append"
    /\ scn.a # <<>>
    /\ Len(scn.a) < Len(scn.b)
    /\ sifts # <<>>
    /\ sifts[1][1] = "sift_down"
    /\ data # scn.b \o scn.a
\* the slots of d are the slots of e, each as many times
permutation(d, e) ==
    /\ Len(d) = Len(e)
    /\ \A i \in DOMAIN d :
           Cardinality({j \in DOMAIN d : d[j] = d[i]}) = Cardinality({j \in DOMAIN e : e[j] = d[i]})

\* the index/position mapping of the storage s is a bijection
bijective(s) ==
    /\ \A p \in 0..(len(s) - 1) :
           /\ is_valid(s, pos_to_index(s, p))
           /\ index_to_pos(s, pos_to_index(s, p)) = p
    /\ \A h \in 0..(Len(s.position) - 1) :
           is_data(s.position[h + 1]) =>
               (/\ index_to_pos(s, h) # NONE
                /\ pos_to_index(s, index_to_pos(s, h)) = h)

\* C15: a sift (sift_up, sift_down, sift_down_to_bottom), whether it runs to
\* its end or is abandoned by a panic of the comparison after any number of
\* hole moves, leaves the backing sequence a permutation of what it was, and
\* leaves the index/position mapping of the indexable store a bijection.
C15_HoleRestored ==
    scn.op \in {"sift_up", "sift_down", "sift_down_to_bottom"} =>
        (/\ permutation(data, scn.before)
         /\ facade = "idx" => bijective(Cur))

\* a sift_down_to_bottom of the indexable heap that the comparison abandoned
\* after the hole had moved
C15_Witness ==
    /\ facade = "idx"
    /\ scn.op = "sift_down_to_bottom"
    /\ ret.tag = "panic"
    /\ sifts = <<<<"sift_down_to_bottom", scn.pos>>, sifts[2]>>
    /\ sifts[2][1] = "panic"
    /\ sifts[2][2] # scn.pos
    /\ data # scn.before

\* C16: once a peek_mut or by_index_mut guard has been restored (the sift run
\* and its sift flag cleared), a further restore, or the drop of the guard,
\* calls no sift, reports no move and leaves the storage as the first restore
\* left it.
C16_SecondRestore ==
    guard.kind # "none" =>
        (/\ restore(restore(Cur, guard, ord)[1], restored(guard), ord)
                = <<restore(Cur, guard, ord)[1], FALSE>>
         /\ dropped(<<restore(Cur, guard, ord)[1], RetUnit>>, restored(guard), ord)
                = <<restore(Cur, guard, ord)[1], RetUnit>>)

\* an open by_index_mut guard that was written through and whose first restore
\* moves the element
C16_Witness ==
    /\ guard.kind = "get"
    /\ guard.sift
    /\ restore(Cur, guard, ord)[2]
    /\ restore(Cur, guard, ord)[1].data # data

\* C18: whenever a peek_mut guard of either facade goes away, by its drop or by
\* PeekMut::pop, after any reads and writes through it, the inner guard is
\* dropped with its sift flag clear: the operation does not end in the
\* "PeekMut must be restored before dropping" panic (nor in any other).
C18_DiagnosticUnreachable ==
    [][(guard.kind = "peek" /\ guard'.kind = "none") => ret'.tag # "panic"]_vars

\* a heap just after the drop of a peek_mut guard that was written through and
\* whose restore sifted the root down
C18_Witness ==
    /\ scn.op = "drop"
    /\ sifts # <<>>
    /\ sifts[1] = <<"sift_down", 0>>
    /\ ret = RetUnit
    /\ guard.kind = "none"
    /\ Len(data) >= 2

\* C17: once the element pushed with handle h (tracked) has been removed from
\* the heap (handed back by pop, PeekMut::pop or remove), by_index(h) and
\* by_index_mut(h) find no position for h and panic; stated for the state the
\* removal leaves, before any push could reissue h.
C17_StaleHandle ==
    [][(/\ tracked # NONE
        /\ tracked' = NONE
        /\ guard'.kind = "none"
        /\ ret'.tag = "some") => index_to_pos(Cur', tracked) = NONE]_vars

\* the calls of a full bottom-up rebuild of a heap of n elements
rebuild_calls(n) == [i \in 1..(n \div 2) |-> <<"sift_down", n \div 2 - i>>]

\* the length after the append and the length of the tail, in a state after
\* rebuild_tail was called with scn.start
appended_len == Len(scn.a) + Len(scn.b)
tail_len == appended_len - scn.start

\* C19 as stated: whenever rebuild_tail is called with a non-empty tail at
\* least as long as start, it rebuilds the whole heap bottom-up.
C19_DominantTail ==
    (scn.op \in {"append", "rebuild_tail"} /\ tail_len > 0 /\ tail_len >= scn.start) =>
        sifts = rebuild_calls(appended_len)

\* C19 amended: whenever rebuild_tail is called with a tail longer than start,
\* it rebuilds the whole heap bottom-up.
C19_LongerTail ==
    (scn.op \in {"append", "rebuild_tail"} /\ tail_len > scn.start) =>
        sifts = rebuild_calls(appended_len)

\* rebuild_tail called on a heap of two or more elements with a longer tail
C19_Witness ==
    /\ scn.op = "rebuild_tail"
    /\ scn.start >= 2
    /\ tail_len > scn.start
    /\ sifts = rebuild_calls(appended_len)

\* the integer part of the binary logarithm of x (1 <= x < 2^30)
floor_log2(x) == CHOOSE e \in 0..29 : 2^e <= x /\ x < 2^(e + 1)

\* C20: when rebuild_tail is called with a non-empty tail shorter than start,
\* it rebuilds the whole heap if and only if 2n < tail * floor(log2(start)) for
\* n <= 2048, and if and only if 2n < tail * 11 for n > 2048.
C20_CostRule ==
    (scn.op \in {"append", "rebuild_tail"} /\ 0 < tail_len /\ tail_len < scn.start) =>
        (sifts = rebuild_calls(appended_len)
            <=> IF appended_len <= 2048
                THEN 2 * appended_len < tail_len * floor_log2(scn.start)
                ELSE 2 * appended_len < tail_len * 11)

\* an append that makes a heap of more than 2048 elements with a shorter tail
\* and rebuilds it, where the logarithm rule would not
C20_Witness ==
    /\ scn.op = "append"
    /\ appended_len > 2048
    /\ 0 < tail_len
    /\ tail_len < scn.start
    /\ ~(2 * appended_len < tail_len * floor_log2(scn.start))
    /\ sifts = rebuild_calls(appended_len)

\* C21: rebuild, run on a backing sequence in any arrangement, calls sift_down
\* at every position from len/2 - 1 down to 0, which are exactly the positions
\* with a child, and leaves a permutation of the sequence with the heap
\* property at every position.
C21_Rebuild ==
    scn.op = "rebuild" =>
        (/\ sifts = rebuild_calls(Len(scn.before))
         /\ \A p \in 0..(Len(scn.before) - 1) :
                (\E i \in DOMAIN sifts : sifts[i][2] = p)
                    <=> child(Len(scn.before), p, 0) # NONE
         /\ permutation(data, scn.before)
         /\ heap_ordered(Cur, ord))

\* a rebuild of an indexable store of four or more elements that were not in
\* heap order
C21_Witness ==
    /\ scn.op = "rebuild"
    /\ facade = "idx"
    /\ Len(data) >= 4
    /\ ~heap_ordered([Cur EXCEPT !.data = scn.before], ord)
    /\ data # scn.before

\* the first n slots of the sequence d, as a storage
prefix(d, n) == [Cur EXCEPT !.data = SubSeq(d, 1, n)]

\* the calls of sift_up at every position from start to n - 1, in increasing order
sift_up_calls(start, n) == [i \in 1..(n - start) |-> <<"sift_up", start + i - 1>>]

\* C22: rebuild_tail(start) changes nothing and calls nothing when start is the
\* length; otherwise, if the positions before start form a heap, it either
\* rebuilds or sifts up every position from start to len - 1 in increasing
\* order, and in both cases leaves a permutation of the sequence with the heap
\* property at every position.
C22_RebuildTail ==
    scn.op = "rebuild_tail" =>
        (/\ scn.pos = Len(scn.before) => (data = scn.before /\ sifts = <<>>)
         /\ (scn.pos < Len(scn.before) /\ heap_ordered(prefix(scn.before, scn.pos), ord)) =>
                (/\ \/ sifts = rebuild_calls(Len(scn.before))
                    \/ sifts = sift_up_calls(scn.pos, Len(scn.before))
                 /\ permutation(data, scn.before)
                 /\ heap_ordered(Cur, ord)))

\* a rebuild_tail that sifted up two appended elements onto a heap of three and
\* moved one of them
C22_Witness ==
    /\ scn.op = "rebuild_tail"
    /\ scn.pos >= 3
    /\ heap_ordered(prefix(scn.before, scn.pos), ord)
    /\ sifts = sift_up_calls(scn.pos, Len(scn.before))
    /\ Len(sifts) >= 2
    /\ data # scn.before

\* the longer and the shorter of the two lengths before the append
longer_len == IF Len(scn.a) < Len(scn.b) THEN Len(scn.b) ELSE Len(scn.a)
shorter_len == IF Len(scn.a) < Len(scn.b) THEN Len(scn.a) ELSE Len(scn.b)

\* C23: a.append(b) calls rebuild_tail with start the longer of the two lengths
\* and a tail of the shorter length, whichever of the two a is: the tail is
\* never longer than start, and the elements sifted up, if any, are those from
\* position start on.
C23_SmallerIntoLarger ==
    scn.op = "append" =>
        (/\ scn.start = longer_len
         /\ tail_len = shorter_len
         /\ tail_len <= scn.start
         /\ IF shorter_len = 0 THEN sifts = <<>>
            ELSE \/ sifts = rebuild_calls(appended_len)
                 \/ sifts = sift_up_calls(longer_len, appended_len))

\* an append called on the shorter heap that sifted up its own elements behind
\* those of the longer
C23_Witness ==
    /\ scn.op = "append"
    /\ Len(scn.a) >= 2
    /\ Len(scn.a) < Len(scn.b)
    /\ sifts = sift_up_calls(Len(scn.b), appended_len)

\* the storage a sift was run on
before == [Cur EXCEPT !.data = scn.before]

\* the number of levels above pos, and the k-th position above pos
RECURSIVE depth(_)
depth(pos) == IF pos = 0 THEN 0 ELSE 1 + depth(parent(pos))
RECURSIVE above(_, _)
above(pos, k) == IF k = 0 THEN pos ELSE above(parent(pos), k - 1)

\* the sift went k levels up from scn.pos: the element is there, each element
\* it passed is one level lower, each of those was ranked below it, and every
\* other slot is as it was
went_up(k) ==
    /\ scn.at = above(scn.pos, k)
    /\ data[scn.at + 1] = scn.before[scn.pos + 1]
    /\ \A j \in 0..(k - 1) :
           /\ data[above(scn.pos, j) + 1] = scn.before[above(scn.pos, j + 1) + 1]
           /\ should_sift_up(ord, get(before, scn.pos), get(before, above(scn.pos, j + 1)))
    /\ \A p \in 0..(Len(data) - 1) :
           (\A j \in 0..k : p # above(scn.pos, j)) => data[p + 1] = scn.before[p + 1]

\* C24: sift_up(pos), on any sequence, ends after at most depth(pos) moves and
\* returns the position q of the element that was at pos; q is the root or a
\* position whose parent is not ranked below the element; the elements between
\* pos and q have each moved down one level and nothing else has moved.
C24_SiftUp ==
    scn.op = "sift_up" =>
        (/\ Len(data) = Len(scn.before)
         /\ \E k \in 0..depth(scn.pos) : went_up(k)
         /\ \/ scn.at = 0
            \/ ~should_sift_up(ord, get(Cur, scn.at), get(Cur, parent(scn.at)))
         /\ facade = "idx" => bijective(Cur))

\* a sift_up in the indexable store that carried an element two levels up, to
\* the root
C24_Witness ==
    /\ scn.op = "sift_up"
    /\ facade = "idx"
    /\ depth(scn.pos) = 2
    /\ scn.at = 0
    /\ went_up(2)

\* the child of p the policy ranks first in the storage s: none, the lone
\* child, or of two the right one only when it is ranked above the left one
upper_of(s, p) ==
    IF child(len(s), p, 0) = NONE THEN NONE
    ELSE IF child(len(s), p, 1) = NONE THEN child(len(s), p, 0)
    ELSE IF should_sift_up(ord, get(s, child(len(s), p, 1)), get(s, child(len(s), p, 0)))
         THEN child(len(s), p, 1)
         ELSE child(len(s), p, 0)

\* the positions the element e goes through from p in the storage s, moving to
\* the upper child as long as that child is ranked above it
RECURSIVE way_down(_, _, _)
way_down(s, p, e) ==
    IF upper_of(s, p) = NONE \/ ~should_sift_down(ord, e, get(s, upper_of(s, p))) THEN <<p>>
    ELSE <<p>> \o way_down(s, upper_of(s, p), e)

\* the sift left the element at the end of the way w, each element on the way
\* one step before its place, and every other slot as it was
moved_along(w) ==
    /\ scn.at = w[Len(w)]
    /\ data[scn.at + 1] = scn.before[scn.pos + 1]
    /\ \A j \in 1..(Len(w) - 1) : data[w[j] + 1] = scn.before[w[j + 1] + 1]
    /\ \A p \in 0..(Len(data) - 1) :
           (\A j \in DOMAIN w : p # w[j]) => data[p + 1] = scn.before[p + 1]

\* p is under r in the tree
under(p, r) == \E k \in 1..depth(p) : above(p, k) = r

\* no element under r in the storage s, other than the children of r when
\* inner is set, is ranked above its parent
ordered_under(s, r, inner) ==
    \A p \in 1..(len(s) - 1) :
        (under(p, r) /\ (inner => parent(p) # r))
            => ~should_sift_up(ord, get(s, p), get(s, parent(p)))

\* C25: sift_down(pos), on any sequence, moves the element to the policy's upper
\* child while the hole has two children and stops at the first refused move;
\* with one child left it tries one last move; it returns the position of the
\* element.  If the two subtrees under pos were heaps, the subtree at pos is a
\* heap afterwards.
C25_SiftDown ==
    scn.op = "sift_down" =>
        (/\ Len(data) = Len(scn.before)
         /\ moved_along(way_down(before, scn.pos, get(before, scn.pos)))
         /\ ordered_under(before, scn.pos, TRUE) => ordered_under(Cur, scn.pos, FALSE)
         /\ facade = "idx" => bijective(Cur))

\* a sift_down from the root of four elements whose subtrees were heaps: one
\* move to the upper of two children, then the last move to a lone child
C25_Witness ==
    /\ scn.op = "sift_down"
    /\ Len(data) = 4
    /\ scn.pos = 0
    /\ scn.at = 3
    /\ ordered_under(before, 0, TRUE)
    /\ data[4] = scn.before[1]

\* the positions from p down to a leaf of the storage s, by the upper child
RECURSIVE way_to_bottom(_, _)
way_to_bottom(s, p) ==
    IF upper_of(s, p) = NONE THEN <<p>> ELSE <<p>> \o way_to_bottom(s, upper_of(s, p))

heap_but_at(s, pos) ==
    /\ \A p \in 1..(len(s) - 1) :
           (p # pos /\ parent(p) # pos)
               => ~should_sift_up(ord, get(s, p), get(s, parent(p)))
    /\ \A p \in 1..(len(s) - 1) :
           (parent(p) = pos /\ pos # 0)
               => ~should_sift_up(ord, get(s, p), get(s, parent(pos)))

\* the element at scn.pos was ranked above its parent before the call
rises == scn.pos # 0 /\ should_sift_up(ord, get(before, scn.pos), get(before, parent(scn.pos)))

\* C27: fixup_sift(pos), on any sequence, calls sift_up and, only if the
\* element did not move, sift_down; if the sequence was a heap but for the value
\* at pos, the heap property holds at every position afterwards.
C27_FixupSift ==
    scn.op = "fixup_sift" =>
        (/\ sifts = IF rises THEN <<<<"sift_up", scn.pos>>>>
                    ELSE <<<<"sift_up", scn.pos>>, <<"sift_down", scn.pos>>>>
         /\ rises <=> depth(scn.at) < depth(scn.pos)
         /\ data[scn.at + 1] = scn.before[scn.pos + 1]
         /\ permutation(data, scn.before)
         /\ heap_but_at(before, scn.pos) => heap_ordered(Cur, ord)
         /\ facade = "idx" => bijective(Cur))

\* a fixup_sift in the indexable store, on a heap but for one inner position,
\* that found the element could not rise and took it down
C27_Witness ==
    /\ scn.op = "fixup_sift"
    /\ facade = "idx"
    /\ scn.pos = 1
    /\ heap_but_at(before, scn.pos)
    /\ ~heap_ordered(before, ord)
    /\ depth(scn.at) > depth(scn.pos)

\* the sequence d without its slot at pos
without(d, pos) == SubSeq(d, 1, pos) \o SubSeq(d, pos + 2, Len(d))

\* C28: GetMut::remove hands back the element under the guard and releases its
\* handle; when the slot was the last one it calls no sift, otherwise it calls
\* sift_down_to_bottom at the removed position and then sift_up at the leaf
\* reached.  Afterwards the heap property holds, the remaining elements are
\* stored with the handles they had, and each of those handles resolves to the
\* position of its element.
C28_Remove ==
    [][(guard.kind = "get" /\ guard'.kind = "none" /\ ret'.tag = "some") =>
           (/\ ret'.item = data[guard.pos + 1].item
            /\ index_to_pos(Cur', data[guard.pos + 1].idx) = NONE
            /\ IF guard.pos = Len(data) - 1 THEN sifts' = <<>>
               ELSE /\ Len(sifts') = 2
                    /\ sifts'[1] = <<"sift_down_to_bottom", guard.pos>>
                    /\ sifts'[2][1] = "sift_up"
                    /\ child(Len(data'), sifts'[2][2], 0) = NONE
            /\ permutation(data', without(data, guard.pos))
            /\ heap_ordered(Cur', ord)
            /\ bijective(Cur')
            /\ \A p \in 0..(Len(data') - 1) : index_to_pos(Cur', data'[p + 1].idx) = p)]_vars

\* a heap just after a removal by handle from position 1 that put the last
\* element into the gap and repaired from there
C28_Witness ==
    /\ facade = "idx"
    /\ guard.kind = "none"
    /\ ret.tag = "some"
    /\ Len(sifts) = 2
    /\ sifts[1] = <<"sift_down_to_bottom", 1>>
    /\ sifts[2][1] = "sift_up"
    /\ Len(data) >= 2

\* C29: at every position of any sequence, upper_child_whole (for a node with
\* two children) and upper_child_partial (for a node with one or two) return
\* the right child exactly when the policy ranks it above the left one; on a
\* tie, and with a lone child, they return the left child.
C29_UpperChild ==
    \A p \in 0..(Len(data) - 1) :
        /\ upper_child_partial(ord, Hole_new(Cur, p)) = upper_of(Cur, p)
        /\ upper_child_whole(ord, Hole_new(Cur, p))
               = IF child(Len(data), p, 1) = NONE THEN NONE ELSE upper_of(Cur, p)
        /\ (/\ child(Len(data), p, 1) # NONE
            /\ get(Cur, child(Len(data), p, 0)).key = get(Cur, child(Len(data), p, 1)).key)
               => (/\ upper_child_whole(ord, Hole_new(Cur, p)) = child(Len(data), p, 0)
                   /\ upper_child_partial(ord, Hole_new(Cur, p)) = child(Len(data), p, 0))

\* a sift_down_to_bottom from a root of the indexable store whose two children
\* held equal keys: the left child, with its handle, was lifted
C29_Witness ==
    /\ scn.op = "sift_down_to_bottom"
    /\ facade = "idx"
    /\ scn.pos = 0
    /\ Len(data) >= 3
    /\ get(before, 1).key = get(before, 2).key
    /\ data[1] = scn.before[2]
    /\ data[3] = scn.before[3]
    /\ scn.at # 0

\* C30: a peek_mut guard starts clean; a read leaves its sift flag as it was; a
\* write sets the flag exactly when the root has a child, so a guard over a
\* lone root is never dirty; the drop of a dirty guard calls sift_down at the
\* root once and nothing else, the drop of a clean guard calls nothing, and the
\* heap property holds after either.
C30_DirtyRule ==
    [][/\ (guard.kind = "none" /\ guard'.kind = "peek") => ~guard'.sift
       /\ (guard.kind = "peek" /\ guard'.kind = "peek") =>
              (/\ ret'.tag = "some" => guard'.sift = guard.sift
               /\ ret'.tag = "unit" => guard'.sift = (guard.sift \/ Len(data) >= 2)
               /\ Len(data) = 1 => ~guard'.sift)
       /\ (guard.kind = "peek" /\ scn'.op = "drop") =>
              (/\ sifts' = IF guard.sift THEN <<<<"sift_down", 0>>>> ELSE <<>>
               /\ Len(data) = 1 => sifts' = <<>>
               /\ heap_ordered(Cur', ord))]_vars

\* a plain heap of MaxLen elements, not all equal, just after the drop of a
\* dirty peek_mut guard: one sift_down at the root was called
C30_Witness ==
    /\ facade = "vec"
    /\ scn.op = "drop"
    /\ sifts = <<<<"sift_down", 0>>>>
    /\ Len(data) = MaxLen
    /\ \E p \in 1..(Len(data) - 1) : data[p + 1].key # data[1].key

\* C31: in every sift, and in the sifts of a pop (made after the last slot was
\* removed), no key is read from the position of the open hole, no element is
\* moved onto its own position, and every position a sift is called at, reads
\* or writes is below the length of the storage: no call breaks the contract
\* and none panics.
C31_StorageContract ==
    /\ \A i \in DOMAIN sifts : sifts[i][1] \notin Breaches /\ sifts[i][2] < Len(data)
    /\ ret.tag # "panic"
    /\ scn.op = "pop" => Len(data) = Len(scn.before) - (IF scn.before = <<>> THEN 0 ELSE 1)

\* a pop of five elements of the indexable store whose hole went from the root
\* to the position of the slot last in the shortened storage
C31_Witness ==
    /\ scn.op = "pop"
    /\ facade = "idx"
    /\ Len(scn.before) = 5
    /\ sifts[1] = <<"sift_down_to_bottom", 0>>
    /\ sifts[2] = <<"sift_up", 3>>
    /\ ret.tag = "some"

\* C32: a push on the indexable store returns the index at the head of the free
\* chain when the chain is not empty, and the head then stands at that entry's
\* successor with the table as long as it was; otherwise it returns the length
\* the side table had and the table is one longer.  In both cases the entry at
\* the returned index is a data entry holding the position of the new element
\* (the slot stored with that index), which holds the pushed key.
C32_HandleAllocation ==
    [][(facade = "idx" /\ ret'.tag = "idx" /\ Len(data') = Len(data) + 1) =>
           (/\ IF first_skip # NextSkipNONE
               THEN /\ ret'.idx = NextSkip_get(first_skip)
                    /\ ~is_data(position[ret'.idx + 1])
                    /\ first_skip' = position[ret'.idx + 1].val
                    /\ Len(position') = Len(position)
               ELSE /\ ret'.idx = Len(position)
                    /\ first_skip' = NextSkipNONE
                    /\ Len(position') = Len(position) + 1
            /\ is_data(position'[ret'.idx + 1])
            /\ position'[ret'.idx + 1].val < Len(data')
            /\ data'[position'[ret'.idx + 1].val + 1].idx = ret'.idx
            /\ \A p \in 0..(Len(data') - 1) :
                   data'[p + 1].idx = ret'.idx => p = position'[ret'.idx + 1].val
            /\ permutation([p \in 1..Len(data') |-> data'[p].item],
                           Append([p \in 1..Len(data) |-> data[p].item],
                                  data'[position'[ret'.idx + 1].val + 1].item)))]_vars

\* a push that took the head of a chain of two released entries and whose
\* element went up to the root
C32_Witness ==
    /\ facade = "idx"
    /\ guard.kind = "none"
    /\ ret.tag = "idx"
    /\ first_skip # NextSkipNONE
    /\ Len(data) = 2
    /\ position[ret.idx + 1] = from_pos(0)
    /\ sifts = <<<<"sift_up", 1>>>>

\* the positions the hole of the sift just run went through, from scn.pos on
way ==
    IF scn.op = "sift_up"
    THEN [j \in 1..(depth(scn.pos) - depth(scn.at) + 1) |-> above(scn.pos, j - 1)]
    ELSE IF scn.op = "sift_down" THEN way_down(before, scn.pos, get(before, scn.pos))
    ELSE way_to_bottom(before, scn.pos)

\* a sift by pairwise swaps: the sequence and the number of slot writes after
\* the element was swapped along the way w from its i-th position on
RECURSIVE swaps_along(_, _, _)
swaps_along(r, w, i) ==
    IF i >= Len(w) THEN r
    ELSE swaps_along([data |-> [r.data EXCEPT ![w[i] + 1] = r.data[w[i + 1] + 1],
                                              ![w[i + 1] + 1] = r.data[w[i] + 1]],
                      writes |-> r.writes + 2], w, i + 1)

\* C33: a sift (sift_up, sift_down, sift_down_to_bottom) whose hole made k
\* moves wrote k + 1 slots of the backing sequence: one per move and the final
\* store.  Pairwise swaps along the same way leave the same sequence with 2k
\* slot writes.
C33_WriteCount ==
    scn.op \in {"sift_up", "sift_down", "sift_down_to_bottom"} =>
        (/\ moved_along(way)
         /\ scn.writes = (Len(way) - 1) + 1
         /\ swaps_along([data |-> scn.before, writes |-> 0], way, 1)
                = [data |-> data, writes |-> 2 * (Len(way) - 1)])

\* a sift_down whose hole moved twice: three slot writes where swaps make four
C33_Witness ==
    /\ scn.op = "sift_down"
    /\ scn.pos = 0
    /\ scn.at >= 3
    /\ scn.writes = 3
    /\ data # scn.before

\* C34: for every length and every position p, child(p, n) for n in {0, 1} is
\* 2p + 1 + n when that is below the length and absent otherwise, parent(p) is
\* (p - 1) / 2 for p > 0 and absent for p = 0, parent(child(p, n)) = p whenever
\* the child is present, and neither function returns its own argument.
C34_TreeArithmetic ==
    /\ scn.op = "child" =>
           (/\ scn.out = IF 2 * scn.pos + 1 + scn.index < scn.length
                         THEN 2 * scn.pos + 1 + scn.index ELSE NONE
            /\ scn.out # NONE => parent(scn.out) = scn.pos
            /\ scn.out # scn.pos)
    /\ scn.op = "parent" =>
           (/\ scn.out = IF scn.pos > 0 THEN (scn.pos - 1) \div 2 ELSE NONE
            /\ scn.out # scn.pos)

\* the number of children of pos in a storage of the given length:
\* min(2, max(0, length - (2 pos + 1)))
child_count(length, pos) ==
    IF length - (2 * pos + 1) >= 2 THEN 2
    ELSE IF length - (2 * pos + 1) <= 0 THEN 0
    ELSE length - (2 * pos + 1)

\* C35: for every length and position p, nchildren(p) is the number of n in
\* {0, 1} for which child(p, n) is present, which is
\* min(2, max(0, length - (2p + 1))) (tests::children: 2 for 0 of 3, 0 for 1 of
\* 3, 1 for 1 of 4, 2 for 1 of 5 and of 6), and the children iterator yields
\* exactly those positions in increasing order.
C35_ChildCount ==
    /\ scn.op = "nchildren" =>
           (/\ scn.out = Cardinality({n \in {0, 1} : child(scn.length, scn.pos, n) # NONE})
            /\ scn.out = child_count(scn.length, scn.pos))
    /\ scn.op = "children" =>
           (/\ scn.out = child_count(scn.length, scn.pos)
            /\ scn.yields = [i \in 1..child_count(scn.length, scn.pos) |-> 2 * scn.pos + i])
    /\ <<nchildren(3, 0), nchildren(3, 1), nchildren(4, 1), nchildren(5, 1), nchildren(6, 1)>>
           = <<2, 0, 1, 2, 2>>

\* the elements stored in the backing sequence d of the storage s, by position
items(s, d) == [p \in 1..Len(d) |-> slot_key(s, d[p])]

\* C36: push stores exactly its argument besides the elements stored before
\* and makes the heap one longer; pop, PeekMut::pop and GetMut::remove take out
\* exactly the element they return and make it one shorter (a pop of an empty
\* heap changes nothing); the release of a guard and every sift, at any
\* position, leave the same elements, each as many times, and the length.
C36_Conservation ==
    [][/\ \A k \in Keys :
              Push(k, 0) =>
                  (/\ Len(data') = Len(data) + 1
                   /\ permutation(items(Cur, data'), Append(items(Cur, data), Item(k, 0))))
       /\ (Pop \/ GuardPop \/ GuardRemove) =>
              IF ret'.tag = "some"
              THEN /\ Len(data') = Len(data) - 1
                   /\ permutation(items(Cur, data), Append(items(Cur, data'), ret'.item))
              ELSE data' = data /\ data = <<>>
       /\ GuardDrop =>
              (Len(data') = Len(data) /\ permutation(items(Cur, data'), items(Cur, data)))
       /\ \A pos \in 0..(Len(data) - 1) :
              /\ permutation(items(Cur, sift_up(Cur, pos, ord)[1].data), items(Cur, data))
              /\ permutation(items(Cur, sift_down(Cur, pos, ord)[1].data), items(Cur, data))
              /\ permutation(items(Cur, sift_down_to_bottom(Cur, pos, ord)[1].data),
                             items(Cur, data))
              /\ permutation(items(Cur, fixup_sift(Cur, pos, ord)[1].data), items(Cur, data))]_vars

\* a plain heap just after a pop or PeekMut::pop that handed back an element
\* whose key is no longer stored, the last element having gone to the root and
\* down again
C36_Witness ==
    /\ facade = "vec"
    /\ guard.kind = "none"
    /\ ret.tag = "some"
    /\ Len(data) = MaxLen - 1
    /\ \A p \in 1..Len(data) : data[p].key # ret.item.key
    /\ Len(sifts) = 2
    /\ sifts[1] = <<"sift_down_to_bottom", 0>>

\* C37: the side table is as long as the number of stored elements and the
\* number of entries on the free chain together, and never longer than the
\* greatest number of elements stored at one time.
C37_TableSize ==
    /\ chain_walk(position, first_skip, {}).ok
    /\ Len(position) = Len(data) + Cardinality(chain_walk(position, first_skip, {}).seen)
    /\ Len(position) <= scn.high

\* one element stored beside a released entry, after the heap was full and the
\* table has lost an entry from its end
C37_Witness ==
    /\ guard.kind = "none"
    /\ scn.high = MaxLen
    /\ Len(data) = 1
    /\ Len(position) = 2
    /\ first_skip = NextSkip_some(0)

\* the handle h was returned by a push, and its entry has since been put on the
\* free chain or popped off the end of the side table and not been reused
released(h) ==
    /\ h < scn.high
    /\ \/ h >= Len(position)
       \/ h \in chain_walk(position, first_skip, {}).seen

\* C38: by_index and by_index_mut called with a released handle panic, hand
\* back no element and no guard, and leave the elements, the side table and
\* the free chain as they were.
C38_FailClosed ==
    [][\A h \in Handles :
           (released(h) /\ (ByIndex(h) \/ ByIndexMut(h))) =>
               (/\ ret' = RetPanic
                /\ guard' = NoGuard
                /\ UNCHANGED <<data, position, first_skip>>)]_vars

\* a call with the handle at the end of the free chain, whose entry holds the
\* bits of position 0, has panicked with an element stored
C38_Witness ==
    /\ scn.by # NONE
    /\ released(scn.by)
    /\ scn.by < Len(position)
    /\ position[scn.by + 1].val = NextSkipNONE
    /\ Len(data) > 0
    /\ ret = RetPanic

====
